---------------------------- MODULE Spec2Model ----------------------------
(***************************************************************************)
(* Journey-reconstruction pipeline of jet-lag-munich.                      *)
(*                                                                         *)
(* Two implementations of the pipeline live in the repository:             *)
(*   - animate_timeline_real_nyc.py     (dict based, "real" below)         *)
(*   - animate_timeline_real_nyc_og.py  (dataclass based, prefix og_)      *)
(* and the Munich map converter core/map/main.py.                          *)
(*                                                                         *)
(* Numbers.  Python floats are modelled by exact rationals <<n, d>>        *)
(* (d > 0, lowest terms).  Geographic values are counted in ticks of       *)
(* 1e-4 degree, so an E7 integer n decodes to n / 1000 ticks, the snap     *)
(* tolerance 0.005 is 50 ticks and the minimum span 0.015 is 150 ticks.    *)
(***************************************************************************)
EXTENDS Integers, Sequences, FiniteSets, TLC

VARIABLES
    pc,          \* stage of construct()
    doc,         \* the timeline document: its "timelineObjects" list
    features,    \* the subway GeoJSON feature collection
    activities,  \* real: list of activity dicts; og: [locations, segments]
    stations,    \* station layer (rows keep the label of the feature)
    snapped,     \* og: (snapped_station_indices, snapped_stations)
    map_bounds,  \* (min_lng, min_lat, max_lng, max_lat)
    cursor,      \* index of the next activity / segment to animate
    dot,         \* og: whether current_dot exists
    directives,  \* the scene directives emitted so far
    inp,         \* input of a function-level specification
    out          \* its result

vars == <<pc, doc, features, activities, stations, snapped, map_bounds,
          cursor, dot, directives, inp, out>>

None == "None"

(***************************************************************************)
(* Exact rationals                                                         *)
(***************************************************************************)
Abs(x) == IF x < 0 THEN -x ELSE x

RECURSIVE Gcd(_, _)
Gcd(a, b) == IF b = 0 THEN a ELSE Gcd(b, a % b)

Rat(n, d) ==
    LET s == IF d < 0 THEN -1 ELSE 1
        g == Gcd(Abs(n), Abs(d))
    IN  <<(s * n) \div g, (s * d) \div g>>

R(n) == <<n, 1>>
RAdd(a, b) == Rat(a[1] * b[2] + b[1] * a[2], a[2] * b[2])
RSub(a, b) == Rat(a[1] * b[2] - b[1] * a[2], a[2] * b[2])
RMul(a, b) == Rat(a[1] * b[1], a[2] * b[2])
RDiv(a, b) == Rat(a[1] * b[2], a[2] * b[1])
RLt(a, b) == a[1] * b[2] < b[1] * a[2]
RLe(a, b) == a[1] * b[2] <= b[1] * a[2]
RZero(a) == a[1] = 0

RECURSIVE RMinSeq(_)
RMinSeq(s) ==
    IF Len(s) = 1 THEN s[1]
    ELSE LET m == RMinSeq(Tail(s)) IN IF RLe(s[1], m) THEN s[1] ELSE m

RECURSIVE RMaxSeq(_)
RMaxSeq(s) ==
    IF Len(s) = 1 THEN s[1]
    ELSE LET m == RMaxSeq(Tail(s)) IN IF RLe(m, s[1]) THEN s[1] ELSE m

(***************************************************************************)
(* Python dict access                                                      *)
(***************************************************************************)
Has(d, k) == k \in DOMAIN d
Get(d, k, default) == IF k \in DOMAIN d THEN d[k] ELSE default
EmptyDict == [k \in {} |-> None]

(***************************************************************************)
(* Timeline documents.  A record of "timelineObjects" is a dict; E7        *)
(* values are integers; a timestamp is an ISO string.                      *)
(***************************************************************************)
IsoSeconds == [s \in {"2024-01-01T10:00:00Z", "2024-01-01T10:05:00Z"} |->
                  IF s = "2024-01-01T10:00:00Z" THEN 0 ELSE 300]

\* e7_to_decimal / the inline "x / 1e7": degrees, counted in ticks.
e7_to_decimal(e7_coord) == Rat(e7_coord, 1000)

\* datetime.fromisoformat(...): the seconds of a well-formed string.
parse_timestamp(timestamp_str) ==
    IF timestamp_str \in DOMAIN IsoSeconds
    THEN [ok |-> TRUE, t |-> IsoSeconds[timestamp_str]]
    ELSE [ok |-> FALSE, t |-> 0]

(***************************************************************************)
(* animate_timeline_real_nyc.py : GoogleMapsTimelineParser                 *)
(* The field rec is bookkeeping of the model: the position of the source   *)
(* record in the document.                                                 *)
(***************************************************************************)
parse_place_visit(place_visit, rec) ==
    LET location == Get(place_visit, "location", EmptyDict)
        duration == Get(place_visit, "duration", EmptyDict)
        lat_e7 == Get(location, "latitudeE7", 0)
        lng_e7 == Get(location, "longitudeE7", Get(location, "lngE7", 0))
    IN  [type |-> "place_visit",
         lat |-> e7_to_decimal(lat_e7),
         lng |-> e7_to_decimal(lng_e7),
         start_time |-> Get(duration, "startTimestamp", ""),
         end_time |-> Get(duration, "endTimestamp", ""),
         place_name |-> Get(location, "name", "Unknown Place"),
         rec |-> rec]

parse_waypoint(waypoint) ==
    [lat |-> e7_to_decimal(Get(waypoint, "latE7", 0)),
     lng |-> e7_to_decimal(Get(waypoint, "lngE7", 0))]

parse_activity_segment(activity_segment, rec) ==
    LET start_location == Get(activity_segment, "startLocation", EmptyDict)
        end_location == Get(activity_segment, "endLocation", EmptyDict)
        duration == Get(activity_segment, "duration", EmptyDict)
        waypoints == Get(activity_segment, "waypoints", <<>>)
    IN  [type |-> "activity_segment",
         activity_type |-> Get(activity_segment, "activityType", "UNKNOWN"),
         start_lat |-> e7_to_decimal(Get(start_location, "latitudeE7", 0)),
         start_lng |-> e7_to_decimal(
             Get(start_location, "longitudeE7", Get(start_location, "lngE7", 0))),
         end_lat |-> e7_to_decimal(Get(end_location, "latitudeE7", 0)),
         end_lng |-> e7_to_decimal(
             Get(end_location, "longitudeE7", Get(end_location, "lngE7", 0))),
         start_time |-> Get(duration, "startTimestamp", ""),
         end_time |-> Get(duration, "endTimestamp", ""),
         waypoints |-> [k \in 1..Len(waypoints) |-> parse_waypoint(waypoints[k])],
         rec |-> rec]

RECURSIVE parse_from(_, _)
parse_from(timeline_objects, i) ==
    IF i > Len(timeline_objects) THEN <<>>
    ELSE LET obj == timeline_objects[i]
             rest == parse_from(timeline_objects, i + 1)
         IN  IF Has(obj, "placeVisit")
             THEN <<parse_place_visit(obj["placeVisit"], i)>> \o rest
             ELSE IF Has(obj, "activitySegment")
             THEN <<parse_activity_segment(obj["activitySegment"], i)>> \o rest
             ELSE rest

parse_timeline_data(timeline_objects) == parse_from(timeline_objects, 1)

(***************************************************************************)
(* animate_timeline_real_nyc_og.py : GoogleMapsTimelineParser              *)
(* d[k] on a missing key raises KeyError and aborts the parse.             *)
(***************************************************************************)
HasAll(d, keys) == \A k \in keys : Has(d, k)

og_place_ok(place) ==
    /\ Has(place, "location")
    /\ HasAll(place["location"], {"latitudeE7", "longitudeE7"})
    /\ Has(place, "duration")
    /\ Has(place["duration"], "startTimestamp")
    /\ parse_timestamp(place["duration"]["startTimestamp"]).ok

og_TimelineLocation(lat, lon, name) == [lat |-> lat, lon |-> lon, name |-> name]

og_place(place, i) ==
    LET location_data == place["location"]
    IN  [lat |-> e7_to_decimal(location_data["latitudeE7"]),
         lon |-> e7_to_decimal(location_data["longitudeE7"]),
         name |-> Get(location_data, "name", None),
         timestamp |-> parse_timestamp(place["duration"]["startTimestamp"]).t,
         rec |-> i]

og_lon_key(loc_data) == IF Has(loc_data, "longitudeE7") THEN "longitudeE7" ELSE "lngE7"

og_loc_ok(loc_data) == Has(loc_data, "latitudeE7") /\ Has(loc_data, og_lon_key(loc_data))

og_waypoints_ok(segment_data) ==
    Has(segment_data, "waypointPath") =>
        /\ Has(segment_data["waypointPath"], "waypoints")
        /\ \A k \in 1..Len(segment_data["waypointPath"]["waypoints"]) :
               HasAll(segment_data["waypointPath"]["waypoints"][k], {"latE7", "lngE7"})

og_segment_ok(segment_data) ==
    /\ Has(segment_data, "startLocation") /\ og_loc_ok(segment_data["startLocation"])
    /\ Has(segment_data, "endLocation") /\ og_loc_ok(segment_data["endLocation"])
    /\ og_waypoints_ok(segment_data)
    /\ Has(segment_data, "duration")
    /\ HasAll(segment_data["duration"], {"startTimestamp", "endTimestamp"})
    /\ parse_timestamp(segment_data["duration"]["startTimestamp"]).ok
    /\ parse_timestamp(segment_data["duration"]["endTimestamp"]).ok

og_loc(loc_data) ==
    og_TimelineLocation(e7_to_decimal(loc_data["latitudeE7"]),
                        e7_to_decimal(loc_data[og_lon_key(loc_data)]), None)

og_segment(segment_data, i) ==
    LET waypoint_list == IF Has(segment_data, "waypointPath")
                         THEN segment_data["waypointPath"]["waypoints"] ELSE <<>>
        start_time == parse_timestamp(segment_data["duration"]["startTimestamp"]).t
        end_time == parse_timestamp(segment_data["duration"]["endTimestamp"]).t
    IN  [start_location |-> og_loc(segment_data["startLocation"]),
         end_location |-> og_loc(segment_data["endLocation"]),
         waypoints |-> [k \in 1..Len(waypoint_list) |->
             og_TimelineLocation(e7_to_decimal(waypoint_list[k]["latE7"]),
                                 e7_to_decimal(waypoint_list[k]["lngE7"]), None)],
         activity_type |-> Get(segment_data, "activityType", "UNKNOWN"),
         duration_seconds |-> end_time - start_time,
         distance_meters |-> Get(segment_data, "distance", 0),
         rec |-> i]

\* The loop of parse_timeline_data from record i on, with the lists built so far.
RECURSIVE og_parse_from(_, _, _, _)
og_parse_from(objs, i, locations, segments) ==
    IF i > Len(objs)
    THEN [ok |-> TRUE, locations |-> locations, segments |-> segments]
    ELSE LET obj == objs[i]
         IN  IF Has(obj, "placeVisit")
             THEN IF og_place_ok(obj["placeVisit"])
                  THEN og_parse_from(objs, i + 1,
                           Append(locations, og_place(obj["placeVisit"], i)), segments)
                  ELSE [ok |-> FALSE, locations |-> <<>>, segments |-> <<>>]
             ELSE IF Has(obj, "activitySegment")
             THEN IF og_segment_ok(obj["activitySegment"])
                  THEN og_parse_from(objs, i + 1, locations,
                           Append(segments, og_segment(obj["activitySegment"], i)))
                  ELSE [ok |-> FALSE, locations |-> <<>>, segments |-> <<>>]
             ELSE og_parse_from(objs, i + 1, locations, segments)

og_parse_timeline_data(objs) == og_parse_from(objs, 1, <<>>, <<>>)

(***************************************************************************)
(* The subway feature collection and its layers.                           *)
(* A feature is [geom_type, coords, props]; coords are (x, y) = (lng, lat) *)
(* pairs.  gpd.read_file labels the rows 0..n-1 and makes one column per   *)
(* property key of the file; a boolean-mask selection keeps the labels.    *)
(***************************************************************************)
RECURSIVE SelectRows(_, _, _)
SelectRows(feats, i, geom_type) ==
    IF i > Len(feats) THEN <<>>
    ELSE (IF feats[i].geom_type = geom_type
          THEN <<[label |-> i - 1, geom_type |-> feats[i].geom_type,
                  coords |-> feats[i].coords, props |-> feats[i].props]>>
          ELSE <<>>) \o SelectRows(feats, i + 1, geom_type)

Columns(feats) == UNION {DOMAIN feats[i].props : i \in 1..Len(feats)}

\* gdf[gdf.geometry.type == geom_type].copy()
Layer(feats, geom_type) ==
    [rows |-> SelectRows(feats, 1, geom_type), columns |-> Columns(feats)]

\* row.get(key, default) of a row of the frame: the default only when the
\* frame has no such column; a feature without the property holds None.
RowGet(gdf, row, key, default) ==
    IF key \in gdf.columns THEN Get(row.props, key, None) ELSE default

\* RealNYCSubwayLoader.load_subway_data / load_nyc_subway_system
load_subway_data(feats) ==
    [stations |-> Layer(feats, "Point"), lines |-> Layer(feats, "LineString")]

(***************************************************************************)
(* Nearest station.  Distances are compared through their squares.         *)
(***************************************************************************)
max_distance == 50      \* 0.005 degrees

Dist2(row, lat, lng) ==
    LET dx == RSub(row.coords[1][1], lng)
        dy == RSub(row.coords[1][2], lat)
    IN  RAdd(RMul(dx, dx), RMul(dy, dy))

WithinTolerance(d2) == RLe(d2, R(max_distance * max_distance))

\* Series.idxmin(): the LABEL of the first row holding the minimum.
IdxMinPos(gdf, lat, lng) ==
    CHOOSE k \in 1..Len(gdf.rows) :
        /\ \A j \in 1..Len(gdf.rows) :
               RLe(Dist2(gdf.rows[k], lat, lng), Dist2(gdf.rows[j], lat, lng))
        /\ \A j \in 1..(k - 1) :
               RLt(Dist2(gdf.rows[k], lat, lng), Dist2(gdf.rows[j], lat, lng))

idxmin(gdf, lat, lng) == gdf.rows[IdxMinPos(gdf, lat, lng)].label

\* .iloc[i] is positional: row i + 1 of the layer, IndexError past the end.
IlocOk(gdf, i) == i < Len(gdf.rows)
Iloc(gdf, i) == gdf.rows[i + 1]

\* SubwaySnapExtractor._find_nearest_station (real)
find_nearest_station(gdf, lat, lng) ==
    IF Len(gdf.rows) = 0 THEN [status |-> "ValueError", pos |-> 0]
    ELSE LET min_distance_idx == idxmin(gdf, lat, lng)
         IN  IF ~IlocOk(gdf, min_distance_idx)
             THEN [status |-> "IndexError", pos |-> 0]
             ELSE IF WithinTolerance(Dist2(Iloc(gdf, min_distance_idx), lat, lng))
             THEN [status |-> "ok", pos |-> min_distance_idx + 1]
             ELSE [status |-> "none", pos |-> 0]

\* SubwaySnapExtractor.find_nearest_station (og): (station_idx, station_name)
og_find_nearest_station(point, gdf) ==
    IF Len(gdf.rows) = 0 THEN [status |-> "none", idx |-> 0, name |-> None]
    ELSE LET min_distance_idx == idxmin(gdf, point.lat, point.lon)
         IN  IF ~IlocOk(gdf, min_distance_idx)
             THEN [status |-> "IndexError", idx |-> 0, name |-> None]
             ELSE IF WithinTolerance(
                         Dist2(Iloc(gdf, min_distance_idx), point.lat, point.lon))
             THEN [status |-> "ok", idx |-> min_distance_idx,
                   name |-> RowGet(gdf, Iloc(gdf, min_distance_idx), "station_label",
                                   "Station " \o ToString(min_distance_idx))]
             ELSE [status |-> "none", idx |-> 0, name |-> None]

(***************************************************************************)
(* Snapping, real: one entry per waypoint that found a station.            *)
(* The field label is bookkeeping: the row label of the station taken.     *)
(***************************************************************************)
RECURSIVE snap_waypoints(_, _, _)
snap_waypoints(gdf, waypoints, i) ==
    IF i > Len(waypoints) THEN [ok |-> TRUE, list |-> <<>>]
    ELSE LET nearest == find_nearest_station(gdf, waypoints[i].lat, waypoints[i].lng)
             rest == snap_waypoints(gdf, waypoints, i + 1)
         IN  IF nearest.status \in {"IndexError", "ValueError"} \/ ~rest.ok
             THEN [ok |-> FALSE, list |-> <<>>]
             ELSE IF nearest.status = "ok"
             THEN LET st == gdf.rows[nearest.pos]
                  IN  [ok |-> TRUE, list |->
                        <<[lat |-> st.coords[1][2], lng |-> st.coords[1][1],
                           station_name |->
                               RowGet(gdf, st, "name", "Station " \o ToString(i)),
                           journey_order |-> i,
                           label |-> st.label]>> \o rest.list]
             ELSE rest

WithKey(d, k, v) == [x \in DOMAIN d \cup {k} |-> IF x = k THEN v ELSE d[x]]

\* SubwaySnapExtractor._snap_subway_activity
snap_subway_activity(gdf, activity) ==
    IF Len(activity.waypoints) = 0 THEN [ok |-> TRUE, activity |-> activity]
    ELSE LET r == snap_waypoints(gdf, activity.waypoints, 1)
         IN  [ok |-> r.ok, activity |-> WithKey(activity, "snapped_stations", r.list)]

IsSubway(activity) ==
    activity.type = "activity_segment" /\ activity.activity_type = "IN_SUBWAY"

\* SubwaySnapExtractor.snap_subway_journey_to_infrastructure (real)
snap_subway_journey_to_infrastructure(gdf, acts) ==
    LET r == [k \in 1..Len(acts) |->
                 IF IsSubway(acts[k]) THEN snap_subway_activity(gdf, acts[k])
                 ELSE [ok |-> TRUE, activity |-> acts[k]]]
    IN  [ok |-> \A k \in 1..Len(acts) : r[k].ok,
         activities |-> [k \in 1..Len(acts) |-> r[k].activity]]

(***************************************************************************)
(* Snapping, og: the first IN_SUBWAY segment only, start and end included, *)
(* deduplicated by station_idx.                                            *)
(***************************************************************************)
RECURSIVE og_snap_points(_, _, _, _, _)
og_snap_points(gdf, points, i, indices, data) ==
    IF i > Len(points) THEN [ok |-> TRUE, indices |-> indices, data |-> data]
    ELSE LET f == og_find_nearest_station(points[i], gdf)
         IN  IF f.status = "IndexError"
             THEN [ok |-> FALSE, indices |-> <<>>, data |-> <<>>]
             ELSE IF f.status = "ok" /\ \A k \in 1..Len(indices) : indices[k] # f.idx
             THEN og_snap_points(gdf, points, i + 1, Append(indices, f.idx),
                      Append(data, [original_idx |-> f.idx,
                                    station_name |-> f.name,
                                    journey_order |-> Len(data) + 1,
                                    geometry |-> Iloc(gdf, f.idx).coords[1]]))
             ELSE og_snap_points(gdf, points, i + 1, indices, data)

og_subway_segments(segments) ==
    LET IsSub(seg) == seg.activity_type = "IN_SUBWAY" IN SelectSeq(segments, IsSub)

og_snap_subway_journey_to_infrastructure(segments, gdf) ==
    LET subway_segments == og_subway_segments(segments)
    IN  IF Len(subway_segments) = 0
        THEN [ok |-> TRUE, indices |-> <<>>, data |-> <<>>]
        ELSE LET subway_segment == subway_segments[1]
                 all_journey_points == <<subway_segment.start_location>>
                                       \o subway_segment.waypoints
                                       \o <<subway_segment.end_location>>
             IN  og_snap_points(gdf, all_journey_points, 1, <<>>, <<>>)

(***************************************************************************)
(* Bounds.  A box is (min_lng, min_lat, max_lng, max_lat).                 *)
(***************************************************************************)
\* The concatenation of a list of lists, halving the list
RECURSIVE Flatten(_)
Flatten(ss) ==
    IF Len(ss) = 0 THEN <<>>
    ELSE IF Len(ss) = 1 THEN ss[1]
    ELSE Flatten(SubSeq(ss, 1, Len(ss) \div 2))
         \o Flatten(SubSeq(ss, Len(ss) \div 2 + 1, Len(ss)))

\* real: the all_lats / all_lngs lists of generate_map_image
all_lats(acts) ==
    Flatten([k \in 1..Len(acts) |->
        IF acts[k].type = "place_visit" THEN <<acts[k].lat>>
        ELSE <<acts[k].start_lat, acts[k].end_lat>>
             \o [w \in 1..Len(acts[k].waypoints) |-> acts[k].waypoints[w].lat]])

all_lngs(acts) ==
    Flatten([k \in 1..Len(acts) |->
        IF acts[k].type = "place_visit" THEN <<acts[k].lng>>
        ELSE <<acts[k].start_lng, acts[k].end_lng>>
             \o [w \in 1..Len(acts[k].waypoints) |-> acts[k].waypoints[w].lng]])

Tenth == Rat(1, 10)

\* real: (min_lng, min_lat, max_lng, max_lat) of the coordinates
raw_box(acts) ==
    <<RMinSeq(all_lngs(acts)), RMinSeq(all_lats(acts)),
      RMaxSeq(all_lngs(acts)), RMaxSeq(all_lats(acts))>>

\* real: "Add padding", 10 % of each range on every side
Padded10(b) ==
    LET lat_padding == RMul(RSub(b[4], b[2]), Tenth)
        lng_padding == RMul(RSub(b[3], b[1]), Tenth)
    IN  <<RSub(b[1], lng_padding), RSub(b[2], lat_padding),
          RAdd(b[3], lng_padding), RAdd(b[4], lat_padding)>>

\* RealTransitMapGenerator.generate_map_image (real): the bounds it returns
\* a generator that frames an empty timeline with a unit box instead of failing
generate_map_image_unit_box(acts) ==
    IF Len(all_lats(acts)) = 0
    THEN [ok |-> TRUE, bounds |-> <<R(0), R(0), R(1), R(1)>>]
    ELSE [ok |-> TRUE, bounds |-> Padded10(raw_box(acts))]

generate_map_image(acts) ==
    IF Len(all_lats(acts)) = 0
    THEN [ok |-> FALSE, bounds |-> <<>>]
    ELSE [ok |-> TRUE, bounds |-> Padded10(raw_box(acts))]

\* og: RealTransitMapGenerator.create_geodataframe
og_all_locations(locations, segments) ==
    [k \in 1..Len(locations) |-> [lat |-> locations[k].lat, lon |-> locations[k].lon]]
    \o Flatten([k \in 1..Len(segments) |->
         <<[lat |-> segments[k].start_location.lat, lon |-> segments[k].start_location.lon],
           [lat |-> segments[k].end_location.lat, lon |-> segments[k].end_location.lon]>>
         \o [w \in 1..Len(segments[k].waypoints) |->
               [lat |-> segments[k].waypoints[w].lat, lon |-> segments[k].waypoints[w].lon]]])

min_range == 150                \* 0.015 degrees
target_aspect == Rat(16, 9)
Half(x) == RDiv(x, R(2))
Quarter == Rat(1, 4)

\* "Ensure minimum coverage" on one axis: (min, max) after the step
og_min_coverage(lo, hi) ==
    IF RLt(RSub(hi, lo), R(min_range))
    THEN LET center == Half(RAdd(lo, hi))
         IN  <<RSub(center, Half(R(min_range))), RAdd(center, Half(R(min_range)))>>
    ELSE <<lo, hi>>

\* "Target landscape aspect ratio": the box after the step
og_aspect(min_lon, min_lat, max_lon, max_lat) ==
    LET lon_range == RSub(max_lon, min_lon)
        lat_range == RSub(max_lat, min_lat)
        current_aspect == RDiv(lon_range, lat_range)
    IN  IF RLt(current_aspect, target_aspect)
        THEN LET lon_expansion == Half(RSub(RMul(lat_range, target_aspect), lon_range))
             IN  <<RSub(min_lon, lon_expansion), min_lat,
                   RAdd(max_lon, lon_expansion), max_lat>>
        ELSE IF RLt(target_aspect, current_aspect)
        THEN LET lat_expansion == Half(RSub(RDiv(lon_range, target_aspect), lat_range))
             IN  <<min_lon, RSub(min_lat, lat_expansion),
                   max_lon, RAdd(max_lat, lat_expansion)>>
        ELSE <<min_lon, min_lat, max_lon, max_lat>>

\* a padding step that pads the north and east sides only
og_padded_north_east(b) ==
    LET lon_padding == RMul(RSub(b[3], b[1]), Quarter)
        lat_padding == RMul(RSub(b[4], b[2]), Quarter)
    IN  <<b[1], b[2], RAdd(b[3], lon_padding), RAdd(b[4], lat_padding)>>

\* "Add padding": 25 % of each range on every side
og_padded(b) ==
    LET lon_padding == RMul(RSub(b[3], b[1]), Quarter)
        lat_padding == RMul(RSub(b[4], b[2]), Quarter)
    IN  <<RSub(b[1], lon_padding), RSub(b[2], lat_padding),
          RAdd(b[3], lon_padding), RAdd(b[4], lat_padding)>>

\* og: the bounds part of generate_real_transit_map.  spanned is the box
\* after the minimum-coverage step, box the box before padding.
og_generate_real_transit_map(locations, segments) ==
    LET pts == og_all_locations(locations, segments)
    IN  IF Len(pts) = 0
        THEN [ok |-> FALSE, spanned |-> <<>>, box |-> <<>>, bounds |-> <<>>]
        ELSE LET lons == [k \in 1..Len(pts) |-> pts[k].lon]
                 lats == [k \in 1..Len(pts) |-> pts[k].lat]
                 lon == og_min_coverage(RMinSeq(lons), RMaxSeq(lons))
                 lat == og_min_coverage(RMinSeq(lats), RMaxSeq(lats))
                 box == og_aspect(lon[1], lat[1], lon[2], lat[2])
             IN  [ok |-> TRUE, spanned |-> <<lon[1], lat[1], lon[2], lat[2]>>,
                  box |-> box, bounds |-> og_padded(box)]

(***************************************************************************)
(* Projection to scene coordinates                                         *)
(***************************************************************************)
scene_width == 14
scene_height_og == 8
scene_height == Rat(63, 8)      \* 7.875
HalfOne == Rat(1, 2)

\* CoordinateConverter.lat_lng_to_manim (real): divides without a guard
lat_lng_to_manim(b, lat, lng) ==
    IF RZero(RSub(b[3], b[1])) \/ RZero(RSub(b[4], b[2]))
    THEN [ok |-> FALSE, pt |-> <<>>]
    ELSE LET x_norm == RDiv(RSub(lng, b[1]), RSub(b[3], b[1]))
             y_norm == RDiv(RSub(lat, b[2]), RSub(b[4], b[2]))
         IN  [ok |-> TRUE,
              pt |-> <<RMul(RSub(x_norm, HalfOne), R(scene_width)),
                       RMul(RSub(y_norm, HalfOne), scene_height)>>]

\* A projector that leaves out the recentring: the scene's origin is the
\* south-west corner of the bounds instead of their centre.
to_scene_coords_corner(b, lat, lon) ==
    LET lon_range == RSub(b[3], b[1])
        lat_range == RSub(b[4], b[2])
        norm_x == IF ~RZero(lon_range) THEN RDiv(RSub(lon, b[1]), lon_range) ELSE HalfOne
        norm_y == IF ~RZero(lat_range) THEN RDiv(RSub(lat, b[2]), lat_range) ELSE HalfOne
    IN  <<RMul(norm_x, R(scene_width)), RMul(norm_y, R(scene_height_og))>>

\* SimpleCoordinateConverter.to_scene_coords (og)
to_scene_coords(b, lat, lon) ==
    LET lon_range == RSub(b[3], b[1])
        lat_range == RSub(b[4], b[2])
        norm_x == IF ~RZero(lon_range) THEN RDiv(RSub(lon, b[1]), lon_range) ELSE HalfOne
        norm_y == IF ~RZero(lat_range) THEN RDiv(RSub(lat, b[2]), lat_range) ELSE HalfOne
    IN  <<RMul(RSub(norm_x, HalfOne), R(scene_width)),
          RMul(RSub(norm_y, HalfOne), R(scene_height_og))>>

(***************************************************************************)
(* Scene directives.  self.play / self.wait / self.add calls in emission   *)
(* order; rec is the source record of the activity that emitted it.        *)
(***************************************************************************)
D(op, pt, text, factor, rec) ==
    [op |-> op, pt |-> pt, text |-> text, factor |-> factor, rec |-> rec]

Move(pt, rec) == D("move_marker", pt, "", <<>>, rec)
Wait(rec) == D("wait", <<>>, "", <<>>, rec)
ShowLabel(text, rec) == D("show_label", <<>>, text, <<>>, rec)
HideLabel(text, rec) == D("hide_label", <<>>, text, <<>>, rec)
Scale(factor, rec) == D("scale_camera", <<>>, "", factor, rec)
MoveCamera(pt, rec) == D("move_camera", pt, "", <<>>, rec)

Truthy(name) == name # None /\ name # ""

\* RealNYCTransitAnimation._animate_place_visit
animate_place_visit(activity, b) ==
    LET p == lat_lng_to_manim(b, activity.lat, activity.lng)
    IN  IF ~p.ok THEN [ok |-> FALSE, ds |-> <<>>]
        ELSE [ok |-> TRUE, ds |-> <<Move(p.pt, activity.rec), Wait(activity.rec)>>]

RECURSIVE animate_stations(_, _, _, _)
animate_stations(snapped_stations, i, b, rec) ==
    IF i > Len(snapped_stations) THEN [ok |-> TRUE, ds |-> <<>>]
    ELSE LET station == snapped_stations[i]
             p == lat_lng_to_manim(b, station.lat, station.lng)
             rest == animate_stations(snapped_stations, i + 1, b, rec)
             label == IF Truthy(station.station_name)
                      THEN <<ShowLabel(station.station_name, rec), Wait(rec),
                             HideLabel(station.station_name, rec)>>
                      ELSE <<>>
         IN  IF ~p.ok THEN [ok |-> FALSE, ds |-> <<>>]
             ELSE [ok |-> rest.ok, ds |-> <<Move(p.pt, rec)>> \o label \o rest.ds]

\* RealNYCTransitAnimation._animate_subway_journey
animate_subway_journey(activity, b) ==
    LET snapped_stations == Get(activity, "snapped_stations", <<>>)
    IN  IF Len(snapped_stations) = 0 THEN [ok |-> TRUE, ds |-> <<>>]
        ELSE animate_stations(snapped_stations, 1, b, activity.rec)

RECURSIVE walk_waypoints(_, _, _, _)
walk_waypoints(waypoints, i, b, rec) ==
    IF i > Len(waypoints) THEN [ok |-> TRUE, ds |-> <<>>]
    ELSE LET p == lat_lng_to_manim(b, waypoints[i].lat, waypoints[i].lng)
             rest == walk_waypoints(waypoints, i + 1, b, rec)
         IN  IF ~p.ok THEN [ok |-> FALSE, ds |-> <<>>]
             ELSE [ok |-> rest.ok,
                   ds |-> <<Move(p.pt, rec), MoveCamera(p.pt, rec)>> \o rest.ds]

\* The generic start -> end movement
start_end(activity, b) ==
    LET s == lat_lng_to_manim(b, activity.start_lat, activity.start_lng)
        e == lat_lng_to_manim(b, activity.end_lat, activity.end_lng)
    IN  IF ~s.ok \/ ~e.ok THEN [ok |-> FALSE, ds |-> <<>>]
        ELSE [ok |-> TRUE, ds |-> <<Move(s.pt, activity.rec), Move(e.pt, activity.rec)>>]

\* RealNYCTransitAnimation._animate_walking_journey
animate_walking_journey(activity, b) ==
    IF Len(activity.waypoints) = 0
    THEN LET m == start_end(activity, b)
         IN  IF ~m.ok THEN m
             ELSE [ok |-> TRUE,
                   ds |-> <<Scale(Rat(1, 2), activity.rec)>> \o m.ds
                          \o <<Scale(R(2), activity.rec)>>]
    ELSE LET w == walk_waypoints(activity.waypoints, 1, b, activity.rec)
         IN  IF ~w.ok THEN [ok |-> FALSE, ds |-> <<Scale(Rat(1, 2), activity.rec)>> \o w.ds]
             ELSE [ok |-> TRUE,
                   ds |-> <<Scale(Rat(1, 2), activity.rec)>> \o w.ds
                          \o <<Scale(R(2), activity.rec)>>]

\* RealNYCTransitAnimation._animate_activity_segment
animate_activity_segment(activity, b) ==
    IF activity.activity_type = "IN_SUBWAY" THEN animate_subway_journey(activity, b)
    ELSE IF activity.activity_type = "WALKING" THEN animate_walking_journey(activity, b)
    ELSE start_end(activity, b)

\* One iteration of the loop of _animate_activities
animate_activity(activity, b) ==
    IF activity.type = "place_visit" THEN animate_place_visit(activity, b)
    ELSE animate_activity_segment(activity, b)

(***************************************************************************)
(* animate_timeline_real_nyc_og.py : the animation part of construct.      *)
(* A destination marker and the first placement of current_dot are added   *)
(* to the scene, not moved.                                                *)
(***************************************************************************)
ShowMarker(pt, rec) == D("show_marker", pt, "", <<>>, rec)
AddDot(pt, rec) == D("add_dot", pt, "", <<>>, rec)
DrawLine(pt, rec) == D("draw_line", pt, "", <<>>, rec)

\* "Add place markers for destinations": one iteration
og_place_marker(location, b) ==
    IF Truthy(location.name)
    THEN <<ShowMarker(to_scene_coords(b, location.lat, location.lon), location.rec),
           ShowLabel(location.name, location.rec), Wait(location.rec)>>
    ELSE <<>>

\* The loop over snapped_stations; has_dot: current_dot is not None
RECURSIVE og_stations(_, _, _, _, _)
og_stations(data, i, b, has_dot, rec) ==
    IF i > Len(data) THEN <<>>
    ELSE LET station_pos == to_scene_coords(b, data[i].geometry[2], data[i].geometry[1])
             station_name == IF Truthy(data[i].station_name) THEN data[i].station_name
                             ELSE "Station " \o ToString(data[i].journey_order)
         IN  <<IF has_dot THEN Move(station_pos, rec) ELSE AddDot(station_pos, rec),
               ShowLabel(station_name, rec), Wait(rec), HideLabel(station_name, rec)>>
             \o og_stations(data, i + 1, b, TRUE, rec)

og_path_points(segment, b) ==
    <<to_scene_coords(b, segment.start_location.lat, segment.start_location.lon)>>
    \o (IF Len(segment.waypoints) > 0
        THEN [w \in 1..Len(segment.waypoints) |->
                 to_scene_coords(b, segment.waypoints[w].lat, segment.waypoints[w].lon)]
        ELSE <<to_scene_coords(b, segment.end_location.lat, segment.end_location.lon)>>)

RECURSIVE RSum(_)
RSum(s) == IF Len(s) = 0 THEN R(0) ELSE RAdd(Head(s), RSum(Tail(s)))

\* np.mean(path_points, axis=0)
Mean(points) ==
    <<RDiv(RSum([k \in 1..Len(points) |-> points[k][1]]), R(Len(points))),
      RDiv(RSum([k \in 1..Len(points) |-> points[k][2]]), R(Len(points)))>>

zoom_factor == 3
ORIGIN == <<R(0), R(0)>>

\* "Animate along path"
og_along_path(path_points, walking, rec) ==
    Flatten([i \in 1..(Len(path_points) - 1) |->
        <<Move(path_points[i + 1], rec)>>
        \o (IF walking THEN <<MoveCamera(path_points[i + 1], rec)>> ELSE <<>>)
        \o <<DrawLine(path_points[i + 1], rec)>>])

\* One iteration of "for segment_idx, segment in enumerate(segments)"
og_animate_segment(segment, data, b, has_dot) ==
    IF segment.activity_type = "IN_SUBWAY"
    THEN og_stations(data, 1, b, has_dot, segment.rec)
    ELSE LET path_points == og_path_points(segment, b)
             walking == segment.activity_type = "WALKING"
         IN  (IF has_dot THEN <<>> ELSE <<AddDot(path_points[1], segment.rec)>>)
             \o (IF walking
                 THEN <<Scale(Rat(1, zoom_factor), segment.rec),
                        MoveCamera(Mean(path_points), segment.rec)>>
                 ELSE <<>>)
             \o og_along_path(path_points, walking, segment.rec)
             \o (IF walking
                 THEN <<Scale(R(zoom_factor), segment.rec), MoveCamera(ORIGIN, segment.rec)>>
                 ELSE <<>>)
             \o <<Wait(segment.rec)>>

\* current_dot after the iteration
og_dot_after(segment, data, has_dot) ==
    IF segment.activity_type = "IN_SUBWAY" THEN has_dot \/ Len(data) > 0 ELSE TRUE

(***************************************************************************)
(* Line colours.  json.loads is modelled on the texts below: each parses   *)
(* to the value beside it and any other text raises JSONDecodeError.       *)
(* A parsed value is a list of items, a dict or a number.                  *)
(***************************************************************************)
JList(items) == [kind |-> "list", items |-> items]
JDict(d) == [kind |-> "dict", d |-> d]
JNumber == [kind |-> "number", d |-> EmptyDict]

RedLine == "[{\"color\": \"EE352E\", \"label\": \"1\"}]"
RedBlueLines == "[{\"color\": \"EE352E\"}, {\"color\": \"0039A6\"}]"

JsonDocs ==
    ("{\"color\": \"EE352E\"}" :> JDict([color |-> "EE352E"]))
    @@ ("[]" :> JList(<<>>))
    @@ ("[1]" :> JList(<<JNumber>>))
    @@ ("[{\"label\": \"1\"}]" :> JList(<<JDict([label |-> "1"])>>))
    @@ (RedLine :> JList(<<JDict([color |-> "EE352E", label |-> "1"])>>))
    @@ (RedBlueLines :> JList(<<JDict([color |-> "EE352E"]), JDict([color |-> "0039A6"])>>))

json_loads(s) ==
    IF s \in DOMAIN JsonDocs THEN [ok |-> TRUE, value |-> JsonDocs[s]]
    ELSE [ok |-> FALSE, value |-> JNumber]

\* real: extract_line_color of RealNYCSubwayLoader._process_line_colors.
\* pd.isna(properties) or not properties: a null cell or the empty string.
extract_line_color(properties) ==
    IF ~Truthy(properties) THEN "#000000"
    ELSE LET lines_data == json_loads(properties)
         IN  IF ~lines_data.ok THEN "#000000"
             ELSE IF lines_data.value.kind = "list" /\ Len(lines_data.value.items) > 0
             THEN LET first_line == lines_data.value.items[1]
                  IN  IF first_line.kind = "dict" /\ Has(first_line.d, "color")
                      THEN first_line.d["color"]
                      ELSE "#000000"
             ELSE "#000000"

\* real: _process_line_colors.  lines_gdf["properties"] raises KeyError when
\* the frame has no such column.
process_line_colors(lines_gdf) ==
    IF "properties" \notin lines_gdf.columns
    THEN [ok |-> FALSE, lines |-> lines_gdf]
    ELSE [ok |-> TRUE,
          lines |-> [rows |-> [k \in 1..Len(lines_gdf.rows) |->
                                  WithKey(lines_gdf.rows[k], "line_color",
                                      extract_line_color(
                                          Get(lines_gdf.rows[k].props, "properties", None)))],
                     columns |-> lines_gdf.columns \cup {"line_color"}]]

\* real: RealNYCSubwayLoader.load_subway_data, the colour step included
real_load_subway_data(feats) ==
    LET layers == load_subway_data(feats)
        coloured == process_line_colors(layers.lines)
    IN  [ok |-> coloured.ok, stations |-> layers.stations, lines |-> coloured.lines]

\* og: the colour of one clipped line in generate_real_transit_map.
\* line.get("lines") is None without the column and null without the
\* property; a dict, a number, or a list whose first item is no dict with a
\* colour ends in the except branch or leaves the default.
og_line_color(gdf, line) ==
    LET cell == RowGet(gdf, line, "lines", None)
    IN  IF ~Truthy(cell) THEN "#0039A6"
        ELSE LET lines_data == json_loads(cell)
             IN  IF ~lines_data.ok THEN "#0039A6"
                 ELSE IF lines_data.value.kind = "list" /\ Len(lines_data.value.items) > 0
                 THEN LET first_line == lines_data.value.items[1]
                      IN  IF first_line.kind = "dict" /\ Has(first_line.d, "color")
                          THEN "#" \o first_line.d["color"]
                          ELSE "#0039A6"
                 ELSE "#0039A6"

(***************************************************************************)
(* Inputs of the pipeline specifications                                   *)
(***************************************************************************)
MaxRecords == 3         \* records of a timeline document

E7(ticks) == ticks * 1000

Dur == [startTimestamp |-> "2024-01-01T10:00:00Z",
        endTimestamp |-> "2024-01-01T10:05:00Z"]

LocA == [latitudeE7 |-> E7(100), longitudeE7 |-> E7(100)]
LocB == [latitudeE7 |-> E7(180), longitudeE7 |-> E7(300)]
LocBOld == [latitudeE7 |-> E7(180), lngE7 |-> E7(300)]
Wp(lat, lng) == [latE7 |-> E7(lat), lngE7 |-> E7(lng)]

Segment(mode, from, to, wps) ==
    [activitySegment |->
        [startLocation |-> from, endLocation |-> to, duration |-> Dur,
         activityType |-> mode, distance |-> 1200,
         waypoints |-> wps, waypointPath |-> [waypoints |-> wps]]]

RecVisitA == [placeVisit |-> [location |-> WithKey(LocA, "name", "A"), duration |-> Dur]]
RecVisitB == [placeVisit |-> [location |-> LocB, duration |-> Dur]]
RecWalk == Segment("WALKING", LocA, LocB, <<Wp(140, 200)>>)
RecSubway == Segment("IN_SUBWAY", LocA, LocB,
                     <<Wp(100, 140), Wp(110, 150), Wp(100, 260), Wp(100, 145)>>)
RecDrive == [activitySegment |->
                [startLocation |-> LocBOld, endLocation |-> LocA, duration |-> Dur,
                 activityType |-> "DRIVING"]]
RecOther == [rawSignal |-> 1]

RecordKinds == {RecVisitA, RecVisitB, RecWalk, RecSubway, RecDrive, RecOther}

Docs == UNION {[1..n -> RecordKinds] : n \in 0..MaxRecords}

PointFeature(lat, lng, props) ==
    [geom_type |-> "Point", coords |-> <<<<R(lng), R(lat)>>>>, props |-> props]
LineFeature(props) ==
    [geom_type |-> "LineString",
     coords |-> <<<<R(100), R(100)>>, <<R(300), R(100)>>>>, props |-> props]

StX == PointFeature(100, 150, [station_label |-> "34 St", properties |-> RedLine])
StY == PointFeature(100, 230, EmptyDict)
LineXY == LineFeature([lines |-> RedLine, properties |-> RedLine])

FeatureSets == {<<>>, <<LineXY>>, <<StX, StY>>, <<LineXY, StX, StY>>, <<StY, StX>>}

\* The end-to-end scenario of the specification (section 8, item 7)
E2EVisit ==
    [placeVisit |->
        [location |-> [latitudeE7 |-> 407589000, longitudeE7 |-> -739851000,
                       name |-> "Times Square"],
         duration |-> Dur]]
E2ESubway ==
    Segment("IN_SUBWAY",
            [latitudeE7 |-> 407589000, longitudeE7 |-> -739851000],
            [latitudeE7 |-> 407505000, longitudeE7 |-> -739934000],
            <<[latE7 |-> 407527000, lngE7 |-> -739890000]>>)
E2EDoc == <<E2EVisit, E2ESubway>>
E2EFeatures ==
    <<PointFeature(407527, -739890, [station_label |-> "34 St", properties |-> RedLine])>>

PipelineInit ==
    /\ pc = "start"
    /\ \/ doc \in Docs /\ features \in FeatureSets
       \/ doc = E2EDoc /\ features = E2EFeatures
    /\ activities = <<>>
    /\ stations = [rows |-> <<>>, columns |-> {}]
    /\ snapped = <<>>
    /\ map_bounds = <<>>
    /\ cursor = 1
    /\ dot = FALSE
    /\ directives = <<>>
    /\ inp = <<>>
    /\ out = <<>>

(***************************************************************************)
(* animate_timeline_real_nyc.py : RealNYCTransitAnimation.construct        *)
(***************************************************************************)
ParseTimeline ==
    /\ pc = "start"
    /\ activities' = parse_timeline_data(doc)
    /\ pc' = "parsed"
    /\ UNCHANGED <<doc, features, stations, snapped, map_bounds, cursor, dot,
                   directives, inp, out>>

LoadSubway ==
    /\ pc = "parsed"
    /\ LET r == real_load_subway_data(features)
       IN  IF r.ok THEN stations' = r.stations /\ pc' = "loaded"
           ELSE stations' = stations /\ pc' = "error"
    /\ UNCHANGED <<doc, features, activities, snapped, map_bounds, cursor, dot,
                   directives, inp, out>>

SnapJourneys ==
    /\ pc = "loaded"
    /\ LET r == snap_subway_journey_to_infrastructure(stations, activities)
       IN  IF r.ok THEN activities' = r.activities /\ pc' = "snapped"
           ELSE activities' = activities /\ pc' = "error"
    /\ UNCHANGED <<doc, features, stations, snapped, map_bounds, cursor, dot,
                   directives, inp, out>>

GenerateMap ==
    /\ pc = "snapped"
    /\ LET r == generate_map_image(activities)
       IN  IF r.ok THEN map_bounds' = r.bounds /\ pc' = "mapped"
           ELSE map_bounds' = map_bounds /\ pc' = "error"
    /\ UNCHANGED <<doc, features, activities, stations, snapped, cursor, dot,
                   directives, inp, out>>

AnimateActivity ==
    /\ pc = "mapped"
    /\ cursor <= Len(activities)
    /\ LET r == animate_activity(activities[cursor], map_bounds)
       IN  /\ directives' = directives \o r.ds
           /\ pc' = IF r.ok THEN "mapped" ELSE "error"
    /\ cursor' = cursor + 1
    /\ UNCHANGED <<doc, features, activities, stations, snapped, map_bounds, dot,
                   inp, out>>

Finish ==
    /\ pc = "mapped"
    /\ cursor > Len(activities)
    /\ pc' = "done"
    /\ UNCHANGED <<doc, features, activities, stations, snapped, map_bounds, cursor,
                   dot, directives, inp, out>>

Next ==
    \/ ParseTimeline
    \/ LoadSubway
    \/ SnapJourneys
    \/ GenerateMap
    \/ AnimateActivity
    \/ Finish

Spec == PipelineInit /\ [][Next]_vars

(***************************************************************************)
(* animate_timeline_real_nyc_og.py : RealNYCTransitAnimation.construct     *)
(* activities holds the (locations, segments) pair of the parser.          *)
(***************************************************************************)
OgParseTimeline ==
    /\ pc = "start"
    /\ LET r == og_parse_timeline_data(doc)
       IN  /\ activities' = [locations |-> r.locations, segments |-> r.segments]
           /\ pc' = IF r.ok THEN "parsed" ELSE "error"
    /\ UNCHANGED <<doc, features, stations, snapped, map_bounds, cursor, dot,
                   directives, inp, out>>

OgGenerateMap ==
    /\ pc = "parsed"
    /\ LET r == og_generate_real_transit_map(activities.locations, activities.segments)
       IN  IF r.ok THEN map_bounds' = r.bounds /\ pc' = "mapped"
           ELSE map_bounds' = map_bounds /\ pc' = "error"
    /\ UNCHANGED <<doc, features, activities, stations, snapped, cursor, dot,
                   directives, inp, out>>

OgLoadSubway ==
    /\ pc = "mapped"
    /\ stations' = load_subway_data(features).stations
    /\ pc' = "loaded"
    /\ UNCHANGED <<doc, features, activities, snapped, map_bounds, cursor, dot,
                   directives, inp, out>>

OgSnapJourney ==
    /\ pc = "loaded"
    /\ LET r == og_snap_subway_journey_to_infrastructure(activities.segments, stations)
       IN  /\ snapped' = [indices |-> r.indices, data |-> r.data]
           /\ pc' = IF r.ok THEN "markers" ELSE "error"
    /\ UNCHANGED <<doc, features, activities, stations, map_bounds, cursor, dot,
                   directives, inp, out>>

OgPlaceMarker ==
    /\ pc = "markers"
    /\ cursor <= Len(activities.locations)
    /\ directives' = directives \o og_place_marker(activities.locations[cursor], map_bounds)
    /\ cursor' = cursor + 1
    /\ UNCHANGED <<pc, doc, features, activities, stations, snapped, map_bounds, dot,
                   inp, out>>

OgStartJourney ==
    /\ pc = "markers"
    /\ cursor > Len(activities.locations)
    /\ pc' = "segments"
    /\ cursor' = 1
    /\ UNCHANGED <<doc, features, activities, stations, snapped, map_bounds, dot,
                   directives, inp, out>>

OgAnimateSegment ==
    /\ pc = "segments"
    /\ cursor <= Len(activities.segments)
    /\ directives' = directives \o
           og_animate_segment(activities.segments[cursor], snapped.data, map_bounds, dot)
    /\ dot' = og_dot_after(activities.segments[cursor], snapped.data, dot)
    /\ cursor' = cursor + 1
    /\ UNCHANGED <<pc, doc, features, activities, stations, snapped, map_bounds,
                   inp, out>>

OgSummary ==
    /\ pc = "segments"
    /\ cursor > Len(activities.segments)
    /\ pc' = "done"
    /\ UNCHANGED <<doc, features, activities, stations, snapped, map_bounds, cursor,
                   dot, directives, inp, out>>

NextOg ==
    \/ OgParseTimeline
    \/ OgGenerateMap
    \/ OgLoadSubway
    \/ OgSnapJourney
    \/ OgPlaceMarker
    \/ OgStartJourney
    \/ OgAnimateSegment
    \/ OgSummary

SpecOg == PipelineInit /\ [][NextOg]_vars

(***************************************************************************)
(* The nearest-station search on its own: one call of each variant on a    *)
(* station layer loaded from a feature collection and a point.             *)
(***************************************************************************)
SnapLats == {100, 130, 140}
SnapLngs == {150, 180, 185, 190, 191, 230, 280, 281}

Idle ==
    /\ doc = <<>>
    /\ features = <<>>
    /\ activities = <<>>
    /\ stations = [rows |-> <<>>, columns |-> {}]
    /\ snapped = <<>>
    /\ map_bounds = <<>>
    /\ cursor = 1
    /\ dot = FALSE
    /\ directives = <<>>

IdleVars == <<doc, features, activities, stations, snapped, map_bounds, cursor, dot,
              directives>>

SnapInit ==
    /\ pc = "snap_in"
    /\ \E fs \in FeatureSets, lat \in SnapLats, lng \in SnapLngs :
           inp = [gdf |-> load_subway_data(fs).stations, lat |-> R(lat), lng |-> R(lng)]
    /\ out = <<>>
    /\ Idle

FindNearest ==
    /\ pc = "snap_in"
    /\ out' = [real |-> find_nearest_station(inp.gdf, inp.lat, inp.lng),
               og |-> og_find_nearest_station([lat |-> inp.lat, lon |-> inp.lng], inp.gdf)]
    /\ pc' = "snap_out"
    /\ UNCHANGED <<inp, IdleVars>>

NextSnap == FindNearest

SpecSnap == SnapInit /\ [][NextSnap]_vars

\* The least squared distance from the point to a station of the layer
MinDist2(gdf, lat, lng) ==
    RMinSeq([k \in 1..Len(gdf.rows) |-> Dist2(gdf.rows[k], lat, lng)])

\* The first row of the layer, in layer order, at the least distance
FirstNearest(gdf, lat, lng) ==
    CHOOSE k \in 1..Len(gdf.rows) :
        /\ Dist2(gdf.rows[k], lat, lng) = MinDist2(gdf, lat, lng)
        /\ \A j \in 1..(k - 1) : Dist2(gdf.rows[j], lat, lng) # MinDist2(gdf, lat, lng)

Searched == pc = "snap_out" /\ Len(inp.gdf.rows) > 0

\* C3: on a non-empty station layer a point snaps to a station if and only
\* if its least distance to a station is at most the tolerance.
C3_SnapsIffWithinTolerance ==
    Searched =>
        /\ out.real.status = "ok" <=> WithinTolerance(MinDist2(inp.gdf, inp.lat, inp.lng))
        /\ out.og.status = "ok" <=> WithinTolerance(MinDist2(inp.gdf, inp.lat, inp.lng))

\* C4: on a non-empty station layer, whatever its row labels, the station
\* the search returns is the first station of the layer at least distance.
C4_ReturnsFirstNearest ==
    Searched =>
        /\ out.real.status = "ok" =>
               out.real.pos = FirstNearest(inp.gdf, inp.lat, inp.lng)
        /\ out.og.status = "ok" =>
               Iloc(inp.gdf, out.og.idx) =
                   inp.gdf.rows[FirstNearest(inp.gdf, inp.lat, inp.lng)]

\* The same two statements on layers whose row labels are 0..n-1
LabelsArePositions == \A k \in 1..Len(inp.gdf.rows) : inp.gdf.rows[k].label = k - 1

SnapsIffWithinTolerance_Unfiltered ==
    (Searched /\ LabelsArePositions) =>
        /\ out.real.status = "ok" <=> WithinTolerance(MinDist2(inp.gdf, inp.lat, inp.lng))
        /\ out.og.status = "ok" <=> WithinTolerance(MinDist2(inp.gdf, inp.lat, inp.lng))

ReturnsFirstNearest_Unfiltered ==
    (Searched /\ LabelsArePositions) =>
        /\ out.real.status = "ok" =>
               out.real.pos = FirstNearest(inp.gdf, inp.lat, inp.lng)
        /\ out.og.status = "ok" =>
               Iloc(inp.gdf, out.og.idx) =
                   inp.gdf.rows[FirstNearest(inp.gdf, inp.lat, inp.lng)]

(***************************************************************************)
(* The projectors on their own: one call of each variant on a bounds box   *)
(* and a coordinate.  The coordinate is placed at k quarters of the span   *)
(* from the box's south-west corner, so k = 2 is the exact centre.         *)
(***************************************************************************)
BoxMinLngs == {-7398, 0, 100}
BoxMinLats == {-50, 407}
BoxWidths == {0, 1, 200}
BoxHeights == {0, 3, 150}
Quarters == 0..4

AtQuarter(lo, span, k) == RAdd(R(lo), RMul(R(span), Rat(k, 4)))

ProjInit ==
    /\ pc = "proj_in"
    /\ \E x \in BoxMinLngs, y \in BoxMinLats, w \in BoxWidths, h \in BoxHeights,
          kx \in Quarters, ky \in Quarters :
           inp = [bounds |-> <<R(x), R(y), R(x + w), R(y + h)>>,
                  lat |-> AtQuarter(y, h, ky), lng |-> AtQuarter(x, w, kx)]
    /\ out = <<>>
    /\ Idle

Project ==
    /\ pc = "proj_in"
    /\ out' = [real |-> lat_lng_to_manim(inp.bounds, inp.lat, inp.lng),
               og |-> to_scene_coords(inp.bounds, inp.lat, inp.lng)]
    /\ pc' = "proj_out"
    /\ UNCHANGED <<inp, IdleVars>>

NextProj == Project

SpecProj == ProjInit /\ [][NextProj]_vars

NonZeroSpan(b) == b[1] # b[3] /\ b[2] # b[4]

AtCentre ==
    /\ inp.lng = Half(RAdd(inp.bounds[1], inp.bounds[3]))
    /\ inp.lat = Half(RAdd(inp.bounds[2], inp.bounds[4]))

\* C8: for bounds with non-zero span on both axes, both projectors map the
\* exact centre of the bounds to the scene point (0, 0), wherever the bounds
\* lie and whatever their size.
C8_CentreProjectsToOrigin ==
    (pc = "proj_out" /\ NonZeroSpan(inp.bounds) /\ AtCentre) =>
        /\ out.real.ok
        /\ out.real.pt = ORIGIN
        /\ out.og = ORIGIN

\* The centre of a box of non-zero span, away from the coordinate origin,
\* has been projected.
C8_Witness ==
    /\ pc = "proj_out"
    /\ NonZeroSpan(inp.bounds)
    /\ AtCentre
    /\ inp.bounds[1] = R(-7398) /\ inp.bounds[3] = R(-7198)
    /\ inp.bounds[2] = R(407) /\ inp.bounds[4] = R(410)
    /\ out.og = ORIGIN

(***************************************************************************)
(* Properties of the two pipelines                                         *)
(***************************************************************************)
RecsOf(seq) == [k \in 1..Len(seq) |-> seq[k].rec]

NonDecreasing(seq) == \A i, j \in 1..Len(seq) : i < j => seq[i] <= seq[j]

\* C1: the directives are emitted in the order the activities occur in the
\* document: every directive of an earlier record precedes every directive
\* of a later record.
C1_DirectivesFollowDocumentOrder == NonDecreasing(RecsOf(directives))

\* The positions of the records of a document that carry a discriminator key
RECURSIVE KeyedFrom(_, _)
KeyedFrom(objs, i) ==
    IF i > Len(objs) THEN <<>>
    ELSE (IF Has(objs[i], "placeVisit") \/ Has(objs[i], "activitySegment")
          THEN <<i>> ELSE <<>>) \o KeyedFrom(objs, i + 1)

\* C5: parsing yields one activity per record carrying a discriminator key,
\* in document order, and nothing for the other records.  Stated on the
\* result of the dataclass-based parser, read in the order it returns it.
C5_OneActivityPerKeyedRecordInOrder ==
    pc \notin {"start"} =>
        RecsOf(activities.locations \o activities.segments) = KeyedFrom(doc, 1)

\* The same statement on the result of the dict-based parser
RealParseKeepsDocumentOrder ==
    pc \notin {"start"} => RecsOf(activities) = KeyedFrom(doc, 1)

\* What the dataclass-based parser does keep: each of its two lists is in
\* document order and together they hold one entry per keyed record.
OgParseKeepsOrderPerKind ==
    pc \notin {"start"} =>
        /\ NonDecreasing(RecsOf(activities.locations))
        /\ NonDecreasing(RecsOf(activities.segments))
        /\ Len(activities.locations) + Len(activities.segments) = Len(KeyedFrom(doc, 1))
        /\ \A k \in 1..Len(activities.locations) :
               Has(doc[activities.locations[k].rec], "placeVisit")
        /\ \A k \in 1..Len(activities.segments) :
               Has(doc[activities.segments[k].rec], "activitySegment")

RealDirectivesFollowDocumentOrder == NonDecreasing(RecsOf(directives))

Snapped == pc \in {"snapped", "mapped", "done"}

NoRepeat(seq) == \A i, j \in 1..Len(seq) : i # j => seq[i] # seq[j]

\* C2: a snapped station sequence holds no station twice and its journey
\* orders are 1, 2, ..., k.  Stated on every snapped subway activity of the
\* dict-based pipeline.
C2_SnappedSequenceDeduplicated ==
    Snapped =>
        \A a \in 1..Len(activities) :
            Has(activities[a], "snapped_stations") =>
                LET seq == activities[a].snapped_stations
                IN  /\ NoRepeat([k \in 1..Len(seq) |-> seq[k].label])
                    /\ \A k \in 1..Len(seq) : seq[k].journey_order = k

\* The same statement on the snapped sequence of the dataclass-based pipeline
OgSnappedSequenceDeduplicated ==
    pc \in {"markers", "segments", "done"} =>
        /\ NoRepeat(snapped.indices)
        /\ NoRepeat([k \in 1..Len(snapped.data) |-> snapped.data[k].geometry])
        /\ \A k \in 1..Len(snapped.data) : snapped.data[k].journey_order = k

SpanLng(b) == RSub(b[3], b[1])
SpanLat(b) == RSub(b[4], b[2])

HasTargetAspect(b) ==
    ~RZero(SpanLat(b)) /\ RDiv(SpanLng(b), SpanLat(b)) = target_aspect

HasMinSpan(b) == RLe(R(min_range), SpanLng(b)) /\ RLe(R(min_range), SpanLat(b))

Mapped == pc \in {"mapped", "done"}

\* C6: the bounds of a non-empty activity set have the aspect ratio 16/9
\* before and after the padding step.  Stated on the dict-based pipeline.
C6_BoundsHaveTargetAspect ==
    Mapped => HasTargetAspect(raw_box(activities)) /\ HasTargetAspect(map_bounds)

\* C7: before padding, the bounds of a non-empty activity set span at least
\* the minimum on each axis.  Stated on the dict-based pipeline.
C7_BoundsHaveMinSpan == Mapped => HasMinSpan(raw_box(activities))

OgMapped == pc \in {"mapped", "loaded", "markers", "segments", "done"}

\* The same two statements on the dataclass-based pipeline
OgBoundsHaveTargetAspect ==
    OgMapped =>
        LET r == og_generate_real_transit_map(activities.locations, activities.segments)
        IN  HasTargetAspect(r.box) /\ HasTargetAspect(r.bounds) /\ map_bounds = r.bounds

OgBoundsHaveMinSpan ==
    OgMapped =>
        LET r == og_generate_real_transit_map(activities.locations, activities.segments)
        IN  HasMinSpan(r.spanned) /\ HasMinSpan(r.box)

EndToEnd == doc = E2EDoc /\ features = E2EFeatures

TimesSquare == [lat |-> Rat(407589000, 1000), lng |-> Rat(-739851000, 1000)]
Station34 == [lat |-> R(407527), lng |-> R(-739890)]

Ops(ds) == [k \in 1..Len(ds) |-> ds[k].op]

NotWait(d) == d.op # "wait"

\* The directives expected of the end-to-end scenario, the waits between the
\* directives of the station left out
ExpectedEndToEnd(ds, b) ==
    /\ Len(ds) >= 4
    /\ ds[1].op = "move_marker"
    /\ ds[1].pt = lat_lng_to_manim(b, TimesSquare.lat, TimesSquare.lng).pt
    /\ ds[2].op = "show_label" /\ ds[2].text = "Times Square"
    /\ ds[3].op = "wait"
    /\ ds[4].op = "hide_label" /\ ds[4].text = "Times Square"
    /\ LET rest == SelectSeq(SubSeq(ds, 5, Len(ds)), NotWait)
       IN  /\ Ops(rest) = <<"move_marker", "show_label", "hide_label">>
           /\ rest[1].pt = lat_lng_to_manim(b, Station34.lat, Station34.lng).pt
           /\ rest[2].text = "34 St"
           /\ rest[3].text = "34 St"

\* C9: in the end-to-end scenario the snapped sequence of the subway segment
\* is exactly the station "34 St" with order 1, and the directives are a
\* move to Times Square with its label shown, held and hidden, then one move
\* to "34 St" with its label shown and hidden.
C9_EndToEndScenario ==
    EndToEnd =>
        /\ Snapped =>
               /\ Has(activities[2], "snapped_stations")
               /\ Len(activities[2].snapped_stations) = 1
               /\ activities[2].snapped_stations[1].station_name = "34 St"
               /\ activities[2].snapped_stations[1].journey_order = 1
        /\ pc = "done" => ExpectedEndToEnd(directives, map_bounds)

\* What the dict-based pipeline does in the scenario: the station is taken
\* at the waypoint with order 1 under a synthesized name, and the visit
\* shows no label.
RealEndToEndActual ==
    EndToEnd =>
        /\ pc # "error"
        /\ Snapped =>
               /\ Len(activities[2].snapped_stations) = 1
               /\ activities[2].snapped_stations[1].station_name = "Station 1"
               /\ activities[2].snapped_stations[1].journey_order = 1
               /\ activities[2].snapped_stations[1].lat = Station34.lat
               /\ activities[2].snapped_stations[1].lng = Station34.lng
        /\ pc = "done" =>
               /\ Ops(directives) = <<"move_marker", "wait", "move_marker",
                                      "show_label", "wait", "hide_label">>
               /\ directives[4].text = "Station 1"

\* What the dataclass-based pipeline does in the scenario: the snapped
\* sequence is the station "34 St" with order 1; the visit's marker and label
\* are shown and the label is never hidden.
OgEndToEndActual ==
    EndToEnd =>
        /\ pc # "error"
        /\ pc \in {"markers", "segments", "done"} =>
               /\ Len(snapped.data) = 1
               /\ snapped.data[1].station_name = "34 St"
               /\ snapped.data[1].journey_order = 1
        /\ pc = "done" =>
               /\ Ops(directives) = <<"show_marker", "show_label", "wait", "add_dot",
                                      "show_label", "wait", "hide_label">>
               /\ directives[2].text = "Times Square"
               /\ directives[5].text = "34 St"

(***************************************************************************)
(* core/map/main.py : the lines CSV.                                       *)
(* A string is a sequence of pieces: the separators "," and " " stand for  *)
(* themselves and every run of other characters is one piece.  A frame is  *)
(* [columns, rows]; a row is [geometry, props] with one value per column,  *)
(* NaN where the feature has no such property.  The lines property is the  *)
(* list of the line objects of its text.                                   *)
(***************************************************************************)
\* A cell of a frame: NaN, or a value
NaN == [na |-> TRUE]
Val(v) == [na |-> FALSE, v |-> v]
notna(cell) == ~cell.na

\* str.split(","): cur is the piece being read
RECURSIVE SplitFrom(_, _, _)
SplitFrom(str, i, cur) ==
    IF i > Len(str) THEN <<cur>>
    ELSE IF str[i] = "," THEN <<cur>> \o SplitFrom(str, i + 1, <<>>)
    ELSE SplitFrom(str, i + 1, Append(cur, str[i]))

split(str) == SplitFrom(str, 1, <<>>)

\* str.strip()
RECURSIVE lstrip(_)
lstrip(str) == IF Len(str) > 0 /\ Head(str) = " " THEN lstrip(Tail(str)) ELSE str

RECURSIVE rstrip(_)
rstrip(str) ==
    IF Len(str) > 0 /\ str[Len(str)] = " " THEN rstrip(SubSeq(str, 1, Len(str) - 1))
    ELSE str

strip(str) == rstrip(lstrip(str))

\* re.findall(r'"label":\s*"([^"]+)"', lines_str): the non-empty labels
findall_labels(lines) ==
    LET Labelled(o) == Has(o, "label") /\ o["label"] # <<>>
        objs == SelectSeq(lines, Labelled)
    IN  [k \in 1..Len(objs) |-> objs[k]["label"]]

UnknownLine == <<"Unknown Line">>

\* extract_line_name
extract_line_name(row) ==
    IF Has(row.props, "dbg_lines") /\ notna(row.props["dbg_lines"])
       /\ row.props["dbg_lines"].v # <<>>
    THEN strip(split(row.props["dbg_lines"].v)[1])
    ELSE IF Has(row.props, "lines") /\ notna(row.props["lines"])
            /\ Len(findall_labels(row.props["lines"].v)) > 0
    THEN strip(findall_labels(row.props["lines"].v)[1])
    ELSE UnknownLine

\* split_multi_line_entries: the line names found for one row
line_names(row) ==
    LET found ==
            IF Has(row.props, "dbg_lines") /\ notna(row.props["dbg_lines"])
               /\ row.props["dbg_lines"].v # <<>>
            THEN LET parts == split(row.props["dbg_lines"].v)
                 IN  [k \in 1..Len(parts) |-> strip(parts[k])]
            ELSE IF Has(row.props, "lines") /\ notna(row.props["lines"])
            THEN LET labels == findall_labels(row.props["lines"].v)
                 IN  [k \in 1..Len(labels) |-> strip(labels[k])]
            ELSE <<>>
    IN  IF Len(found) = 0 THEN <<UnknownLine>> ELSE found

\* split_multi_line_entries: the copies made of one row
expand_row(row) ==
    LET names == line_names(row)
    IN  [k \in 1..Len(names) |->
            IF Has(row.props, "dbg_lines")
            THEN [row EXCEPT !.props = WithKey(row.props, "dbg_lines", Val(names[k]))]
            ELSE row]

split_multi_line_entries(lines_gdf) ==
    [columns |-> lines_gdf.columns,
     rows |-> Flatten([k \in 1..Len(lines_gdf.rows) |-> expand_row(lines_gdf.rows[k])])]

\* geometry.to_wkt()
to_wkt(geometry) == [kind |-> "LINESTRING", text |-> geometry]

create_lines_csv(lines_gdf) ==
    LET expanded_lines == split_multi_line_entries(lines_gdf)
    IN  [k \in 1..Len(expanded_lines.rows) |->
            LET row == expanded_lines.rows[k]
                name == extract_line_name(row)
            IN  [name |-> name,
                 WKT |-> to_wkt(row.geometry),
                 Description |-> IF "dbg_lines" \in expanded_lines.columns
                                 THEN row.props["dbg_lines"] ELSE Val(name)]]
MaxLines == 2           \* line features of a lines layer

DbgValues == {NaN, Val(<<>>), Val(<<"U1">>), Val(<<"U1", ",", "U2">>),
              Val(<<"S1", ",", " ", "S2">>)}
LinesValues == {NaN, Val(<<>>), Val(<<[label |-> <<"U1">>]>>),
                Val(<<[label |-> <<"U1">>, color |-> "c1"], [label |-> <<"U2">>]>>)}
ColumnSets == {{"dbg_lines", "lines"}, {"dbg_lines"}, {"lines"}, {}}

PropsOver(columns) ==
    {[c \in columns |-> IF c = "dbg_lines" THEN d ELSE l] :
        d \in DbgValues, l \in LinesValues}

LineGeometry(k) == <<<<k, 0>>, <<k, 1>>>>

LinesLayers ==
    UNION {{[columns |-> c,
             rows |-> [k \in 1..n |-> [geometry |-> LineGeometry(k), props |-> ps[k]]]] :
                ps \in [1..n -> PropsOver(c)]} :
           c \in ColumnSets, n \in 1..MaxLines}

CsvInit ==
    /\ pc = "csv_in"
    /\ inp \in LinesLayers
    /\ out = <<>>
    /\ Idle

CreateLinesCsv ==
    /\ pc = "csv_in"
    /\ out' = create_lines_csv(inp)
    /\ pc' = "csv_out"
    /\ UNCHANGED <<inp, IdleVars>>

NextCsv == CreateLinesCsv

SpecCsv == CsvInit /\ [][NextCsv]_vars

\* The individual line names of a feature: the comma-separated names of
\* dbg_lines, else the labels of the lines metadata, else "Unknown Line"
IndividualNames(row) ==
    IF Has(row.props, "dbg_lines") /\ notna(row.props["dbg_lines"])
       /\ row.props["dbg_lines"].v # <<>>
    THEN LET parts == split(row.props["dbg_lines"].v)
         IN  [k \in 1..Len(parts) |-> strip(parts[k])]
    ELSE IF Has(row.props, "lines") /\ notna(row.props["lines"])
            /\ Len(findall_labels(row.props["lines"].v)) > 0
    THEN findall_labels(row.props["lines"].v)
    ELSE <<UnknownLine>>

ExpectedLineRows(gdf) ==
    Flatten([k \in 1..Len(gdf.rows) |->
        LET names == IndividualNames(gdf.rows[k])
        IN  [n \in 1..Len(names) |->
                [name |-> names[n], WKT |-> to_wkt(gdf.rows[k].geometry)]]])

\* C10: the lines CSV holds, for each line feature in input order, one row
\* per individual line name of the feature, in name order, named by that
\* name and carrying the feature's geometry as WKT.
C10_OneRowPerLineName ==
    pc = "csv_out" =>
        [k \in 1..Len(out) |-> [name |-> out[k].name, WKT |-> out[k].WKT]]
            = ExpectedLineRows(inp)

\* The same statement on layers that have a dbg_lines column
OneRowPerLineName_WithDbgColumn ==
    (pc = "csv_out" /\ "dbg_lines" \in inp.columns) =>
        [k \in 1..Len(out) |-> [name |-> out[k].name, WKT |-> out[k].WKT]]
            = ExpectedLineRows(inp)

\* Without the column the number of rows and their geometries are still
\* those expected; only the names differ.
RowsAndGeometriesPerLineName ==
    pc = "csv_out" =>
        [k \in 1..Len(out) |-> out[k].WKT]
            = [k \in 1..Len(ExpectedLineRows(inp)) |-> ExpectedLineRows(inp)[k].WKT]

(***************************************************************************)
(* core/map/main.py : separate_geometries, with the loader of the          *)
(* animation, which makes the same selection.  A feature collection is     *)
(* read into a frame whose row k has the label k - 1.                      *)
(***************************************************************************)
\* A separation that sends every feature that is not a Point to the lines
separate_geometries_rest_as_lines(feats) ==
    [points |-> Layer(feats, "Point"),
     lines |-> [rows |-> Flatten([k \in 1..Len(feats) |->
                            IF feats[k].geom_type # "Point"
                            THEN <<[label |-> k - 1, geom_type |-> feats[k].geom_type,
                                    coords |-> feats[k].coords, props |-> feats[k].props]>>
                            ELSE <<>>]),
                columns |-> Columns(feats)]]

separate_geometries(feats) ==
    [points |-> Layer(feats, "Point"), lines |-> Layer(feats, "LineString")]

MaxFeatures == 3        \* features of a feature collection

GeometryKinds == {"Point", "LineString", "Polygon", "MultiLineString"}

Feature(kind, k) ==
    [geom_type |-> kind, coords |-> <<<<R(k), R(k)>>>>, props |-> [id |-> k]]

FeatureCollections ==
    UNION {{[k \in 1..n |-> Feature(kinds[k], k)] : kinds \in [1..n -> GeometryKinds]} :
           n \in 0..MaxFeatures}

SepInit ==
    /\ pc = "sep_in"
    /\ inp \in FeatureCollections
    /\ out = <<>>
    /\ Idle

Separate ==
    /\ pc = "sep_in"
    /\ out' = [main |-> separate_geometries(inp), loader |-> load_subway_data(inp)]
    /\ pc' = "sep_out"
    /\ UNCHANGED <<inp, IdleVars>>

NextSep == Separate

SpecSep == SepInit /\ [][NextSep]_vars

\* The positions (from 0) of the features of one kind, in input order
RECURSIVE PositionsOfKind(_, _, _)
PositionsOfKind(feats, i, kind) ==
    IF i > Len(feats) THEN <<>>
    ELSE (IF feats[i].geom_type = kind THEN <<i - 1>> ELSE <<>>)
         \o PositionsOfKind(feats, i + 1, kind)

\* The layer holds exactly the features of the kind, once each, in input order
IsLayerOfKind(layer, feats, kind) ==
    /\ [k \in 1..Len(layer.rows) |-> layer.rows[k].label] = PositionsOfKind(feats, 1, kind)
    /\ \A k \in 1..Len(layer.rows) :
           LET f == feats[layer.rows[k].label + 1]
           IN  /\ layer.rows[k].geom_type = kind
               /\ layer.rows[k].coords = f.coords
               /\ layer.rows[k].props = f.props

\* C11: geometry separation is a partition by kind: the stations layer is
\* exactly the Point features and the lines layer exactly the LineString
\* features, each once and in input order; no feature is in both and a
\* feature of another kind is in neither.
C11_SeparationIsPartitionByKind ==
    pc = "sep_out" =>
        /\ IsLayerOfKind(out.main.points, inp, "Point")
        /\ IsLayerOfKind(out.main.lines, inp, "LineString")
        /\ IsLayerOfKind(out.loader.stations, inp, "Point")
        /\ IsLayerOfKind(out.loader.lines, inp, "LineString")
        /\ \A i \in 1..Len(out.main.points.rows), j \in 1..Len(out.main.lines.rows) :
               out.main.points.rows[i].label # out.main.lines.rows[j].label
        /\ Len(out.main.points.rows) + Len(out.main.lines.rows)
               = Cardinality({k \in 1..Len(inp) :
                                 inp[k].geom_type \in {"Point", "LineString"}})

\* A collection with a line, a polygon and a point, in this order, separated
C11_Witness ==
    /\ pc = "sep_out"
    /\ Len(inp) = 3
    /\ inp[1].geom_type = "LineString"
    /\ inp[2].geom_type = "Polygon"
    /\ inp[3].geom_type = "Point"
    /\ Len(out.main.points.rows) = 1 /\ out.main.points.rows[1].label = 2
    /\ Len(out.main.lines.rows) = 1 /\ out.main.lines.rows[1].label = 0

(***************************************************************************)
(* core/map/main.py : main().  One pass over the members of MunichGeoJson. *)
(* inp gives, for each endpoint, what its iteration meets:                 *)
(*   "ok"              the fetch succeeds and the data is converted        *)
(*   "RequestError"    fetch_geojson_data raises httpx.RequestError        *)
(*   "HTTPStatusError" raise_for_status raises httpx.HTTPStatusError       *)
(*   "ValueError"      the fetch succeeds, the temporary file is written   *)
(*                     and reading or converting it raises ValueError      *)
(*                     before any output file is written                   *)
(*   "OSError"         as "ok" up to the first output file, a CSV; the     *)
(*                     write of the next file raises OSError               *)
(* out holds fetched (the endpoints fetch_geojson_data was called for, in  *)
(* call order), temp (temporary files present), written (output files      *)
(* present) and failed (endpoints whose iteration ended in an except       *)
(* clause).                                                                *)
(***************************************************************************)
MunichGeoJson == <<"SUBWAY_LIGHTRAIL", "TRAM", "COMMUTER_RAIL", "BOUNDARY">>

EndpointOutcomes == {"ok", "RequestError", "HTTPStatusError", "ValueError", "OSError"}

\* The files one successful iteration leaves in the output directory, each
\* named by its endpoint and the rest of its file name
outputs_of(endpoint) ==
    IF endpoint = "BOUNDARY" THEN {<<endpoint, "csv">>, <<endpoint, "kml">>}
    ELSE {<<endpoint, "stations.csv">>, <<endpoint, "stations_google.kml">>,
          <<endpoint, "lines.csv">>, <<endpoint, "lines_google.kml">>}

\* The files of an iteration that fails after its first output file
partial_outputs_of(endpoint) ==
    IF endpoint = "BOUNDARY" THEN {<<endpoint, "csv">>}
    ELSE {<<endpoint, "stations.csv">>}

MainInit ==
    /\ pc = "main_loop"
    /\ inp \in [1..Len(MunichGeoJson) -> EndpointOutcomes]
    /\ out = [fetched |-> <<>>, temp |-> {}, written |-> {}, failed |-> {}]
    /\ cursor = 1
    /\ doc = <<>>
    /\ features = <<>>
    /\ activities = <<>>
    /\ stations = [rows |-> <<>>, columns |-> {}]
    /\ snapped = <<>>
    /\ map_bounds = <<>>
    /\ dot = FALSE
    /\ directives = <<>>

MainVars == <<doc, features, activities, stations, snapped, map_bounds, dot, directives>>

\* An iteration whose except clauses end the loop instead of going on to the
\* next endpoint
ProcessEndpoint_stops_at_failure ==
    /\ pc = "main_loop"
    /\ cursor <= Len(MunichGeoJson)
    /\ LET endpoint == MunichGeoJson[cursor]
           met == inp[cursor]
       IN  /\ out' = [fetched |-> Append(out.fetched, endpoint),
                      temp |-> IF met \in {"ValueError", "OSError"}
                               THEN out.temp \cup {endpoint}
                               ELSE out.temp,
                      written |-> IF met = "ok" THEN out.written \cup outputs_of(endpoint)
                                  ELSE IF met = "OSError"
                                  THEN out.written \cup partial_outputs_of(endpoint)
                                  ELSE out.written,
                      failed |-> IF met = "ok" THEN out.failed
                                 ELSE out.failed \cup {endpoint}]
           /\ cursor' = IF met = "ok" THEN cursor + 1 ELSE Len(MunichGeoJson) + 1
    /\ UNCHANGED <<pc, inp, MainVars>>

\* One iteration of "for i, endpoint in enumerate(MunichGeoJson, 1)"
ProcessEndpoint ==
    /\ pc = "main_loop"
    /\ cursor <= Len(MunichGeoJson)
    /\ LET endpoint == MunichGeoJson[cursor]
           met == inp[cursor]
       IN  out' = [fetched |-> Append(out.fetched, endpoint),
                   temp |-> IF met \in {"ValueError", "OSError"}
                            THEN out.temp \cup {endpoint}
                            ELSE out.temp,
                   written |-> IF met = "ok" THEN out.written \cup outputs_of(endpoint)
                               ELSE IF met = "OSError"
                               THEN out.written \cup partial_outputs_of(endpoint)
                               ELSE out.written,
                   failed |-> IF met = "ok" THEN out.failed
                              ELSE out.failed \cup {endpoint}]
    /\ cursor' = cursor + 1
    /\ UNCHANGED <<pc, inp, MainVars>>

\* "Conversion process completed"
MainReturns ==
    /\ pc = "main_loop"
    /\ cursor > Len(MunichGeoJson)
    /\ pc' = "main_done"
    /\ UNCHANGED <<cursor, inp, out, MainVars>>

NextMain == ProcessEndpoint \/ MainReturns

SpecMain == MainInit /\ [][NextMain]_vars

EveryFetchSucceeds == \A k \in 1..Len(MunichGeoJson) : inp[k] = "ok"

\* C12: in a run of main() where every fetch succeeds, fetch_geojson_data
\* is called exactly once per endpoint, 3 calls in total.
C12_ThreeFetchCalls ==
    (pc = "main_done" /\ EveryFetchSucceeds) =>
        /\ \A k \in 1..Len(MunichGeoJson) :
               Cardinality({c \in 1..Len(out.fetched) : out.fetched[c] = MunichGeoJson[k]}) = 1
        /\ Len(out.fetched) = 3

\* What main() does: one call per member of MunichGeoJson, in member order,
\* whatever the iterations meet
OneFetchPerEndpoint == pc = "main_done" => out.fetched = MunichGeoJson

(***************************************************************************)
(* The walking branch of the three sequencers, applied to a timeline of    *)
(* one walking segment with the map bounds its own pipeline computes.      *)
(***************************************************************************)
\* SimpleTimelineAnimation._animate_walking_journey
simple_animate_walking_journey(activity, b) ==
    IF Len(activity.waypoints) = 0
    THEN LET m == start_end(activity, b)
         IN  IF ~m.ok THEN m
             ELSE [ok |-> TRUE,
                   ds |-> <<Scale(Rat(1, 2), activity.rec)>> \o m.ds
                          \o <<Scale(R(2), activity.rec)>>]
    ELSE LET w == walk_waypoints(activity.waypoints, 1, b, activity.rec)
             zoom_in == <<Scale(Rat(1, 2), activity.rec),
                          ShowLabel("Walking", activity.rec), Wait(activity.rec),
                          HideLabel("Walking", activity.rec)>>
         IN  IF ~w.ok THEN [ok |-> FALSE, ds |-> zoom_in \o w.ds]
             ELSE [ok |-> TRUE, ds |-> zoom_in \o w.ds \o <<Scale(R(2), activity.rec)>>]

WalkLats == {100, 180}
WalkLngs == {100, 300}
WalkLocs == {[latitudeE7 |-> E7(lat), longitudeE7 |-> E7(lng)] :
                 lat \in WalkLats, lng \in WalkLngs}
WalkWps == {Wp(100, 100), Wp(100, 300)}
MaxWaypoints == 2
WalkPaths == UNION {[1..n -> WalkWps] : n \in 0..MaxWaypoints}

WalkInit ==
    /\ pc = "walk_in"
    /\ \E from \in WalkLocs, to \in WalkLocs, wps \in WalkPaths :
           inp = <<Segment("WALKING", from, to, wps)>>
    /\ out = <<>>
    /\ Idle

\* parse, generate_map_image, then _animate_walking_journey (real)
WalkReal ==
    /\ pc = "walk_in"
    /\ LET acts == parse_timeline_data(inp)
           r == animate_walking_journey(acts[1], generate_map_image(acts).bounds)
       IN  out' = [variant |-> "real", ok |-> r.ok, ds |-> r.ds]
    /\ pc' = "walk_out"
    /\ UNCHANGED <<inp, IdleVars>>

\* parse, generate_map_image, then _animate_walking_journey (simple)
WalkSimple ==
    /\ pc = "walk_in"
    /\ LET acts == parse_timeline_data(inp)
           r == simple_animate_walking_journey(acts[1], generate_map_image(acts).bounds)
       IN  out' = [variant |-> "simple", ok |-> r.ok, ds |-> r.ds]
    /\ pc' = "walk_out"
    /\ UNCHANGED <<inp, IdleVars>>

\* parse, generate_real_transit_map, then the WALKING iteration of construct (og)
WalkOg ==
    /\ pc = "walk_in"
    /\ LET p == og_parse_timeline_data(inp)
           b == og_generate_real_transit_map(p.locations, p.segments).bounds
       IN  out' = [variant |-> "og", ok |-> TRUE,
                   ds |-> og_animate_segment(p.segments[1], <<>>, b, FALSE)]
    /\ pc' = "walk_out"
    /\ UNCHANGED <<inp, IdleVars>>

NextWalk == WalkReal \/ WalkSimple \/ WalkOg

SpecWalk == WalkInit /\ [][NextWalk]_vars

\* The camera's scale after a directive sequence, relative to its scale before
RECURSIVE CameraScale(_)
CameraScale(ds) ==
    IF Len(ds) = 0 THEN R(1)
    ELSE IF Head(ds).op = "scale_camera"
         THEN RMul(Head(ds).factor, CameraScale(Tail(ds)))
         ELSE CameraScale(Tail(ds))

ScaleRestored(ds) == RZero(RSub(CameraScale(ds), R(1)))

ZoomsIn(ds) == \E k \in 1..Len(ds) : ds[k].op = "scale_camera" /\ RLt(ds[k].factor, R(1))

\* C13: every zoom-in emitted for a walking segment is followed, before the
\* segment's directives end, by a zoom-out of the inverse factor, so that the
\* camera's cumulative scale after the segment is its scale before it.
C13_ZoomInIsUndone ==
    (pc = "walk_out" /\ ZoomsIn(out.ds)) => ScaleRestored(out.ds)

\* What the three variants do: a walking segment whose directives were all
\* emitted leaves the camera's scale as it found it
CompletedWalkRestoresScale ==
    (pc = "walk_out" /\ out.ok) => (ZoomsIn(out.ds) /\ ScaleRestored(out.ds))

\* og: every walking segment completes
OgWalkRestoresScale ==
    (pc = "walk_out" /\ out.variant = "og") => (out.ok /\ ScaleRestored(out.ds))

(***************************************************************************)
(* The two parsers on a document whose first record lacks some of its      *)
(* fields and whose second record is complete.                             *)
(***************************************************************************)
Opt(k, present, v) == IF present THEN k :> v ELSE EmptyDict

\* longitudeE7 and lngE7 carry different values, so the key read is visible
PartialLocs ==
    {Opt("latitudeE7", a, E7(100)) @@ Opt("longitudeE7", b, E7(300))
        @@ Opt("lngE7", c, E7(200)) : a \in BOOLEAN, b \in BOOLEAN, c \in BOOLEAN}
PartialDurs == {EmptyDict, Dur}
PartialWps == {<<>>, <<Wp(140, 200)>>, <<"latE7" :> E7(140)>>, <<EmptyDict>>}

PartialVisits ==
    {[placeVisit |-> Opt("location", hl, loc) @@ Opt("duration", hd, dur)] :
        hl \in BOOLEAN, hd \in BOOLEAN, loc \in PartialLocs, dur \in PartialDurs}
PartialSegments ==
    {[activitySegment |->
        Opt("startLocation", hl, loc) @@ Opt("duration", hd, dur)
        @@ [endLocation |-> LocB, activityType |-> "WALKING",
            waypoints |-> wps, waypointPath |-> [waypoints |-> wps]]] :
        hl \in BOOLEAN, hd \in BOOLEAN, loc \in PartialLocs, dur \in PartialDurs,
        wps \in PartialWps}

ParseInit ==
    /\ pc = "parse_in"
    /\ \E first \in PartialVisits \cup PartialSegments, second \in {RecVisitB, RecDrive} :
           inp = <<first, second>>
    /\ out = <<>>
    /\ Idle

\* real: GoogleMapsTimelineParser.parse_timeline_data
ParseReal ==
    /\ pc = "parse_in"
    /\ LET acts == parse_timeline_data(inp)
       IN  out' = [variant |-> "real", ok |-> TRUE,
                   parsed |-> [k \in 1..Len(acts) |->
                       [rec |-> acts[k].rec,
                        lat |-> IF acts[k].type = "place_visit" THEN acts[k].lat
                                ELSE acts[k].start_lat,
                        lon |-> IF acts[k].type = "place_visit" THEN acts[k].lng
                                ELSE acts[k].start_lng]]]
    /\ pc' = "parse_out"
    /\ UNCHANGED <<inp, IdleVars>>

\* og: GoogleMapsTimelineParser.parse_timeline_data
ParseOg ==
    /\ pc = "parse_in"
    /\ LET r == og_parse_timeline_data(inp)
       IN  out' = [variant |-> "og", ok |-> r.ok,
                   parsed |->
                       [k \in 1..Len(r.locations) |->
                           [rec |-> r.locations[k].rec, lat |-> r.locations[k].lat,
                            lon |-> r.locations[k].lon]]
                       \o [k \in 1..Len(r.segments) |->
                           [rec |-> r.segments[k].rec,
                            lat |-> r.segments[k].start_location.lat,
                            lon |-> r.segments[k].start_location.lon]]]
    /\ pc' = "parse_out"
    /\ UNCHANGED <<inp, IdleVars>>

NextParse == ParseReal \/ ParseOg

SpecParse == ParseInit /\ [][NextParse]_vars

\* The location dict of a raw record (its start location for a segment);
\* the empty dict when the record has none
RawLocation(record) ==
    IF Has(record, "placeVisit") THEN Get(record.placeVisit, "location", EmptyDict)
    ELSE Get(record.activitySegment, "startLocation", EmptyDict)

DefaultedLat(loc) == IF Has(loc, "latitudeE7") THEN Rat(loc.latitudeE7, 1000) ELSE R(0)
DefaultedLon(loc) ==
    IF Has(loc, "longitudeE7") THEN Rat(loc.longitudeE7, 1000)
    ELSE IF Has(loc, "lngE7") THEN Rat(loc.lngE7, 1000)
    ELSE R(0)

DefaultsApplied ==
    /\ out.ok
    /\ {out.parsed[k].rec : k \in 1..Len(out.parsed)} = 1..Len(inp)
    /\ \A k \in 1..Len(out.parsed) :
           LET loc == RawLocation(inp[out.parsed[k].rec])
           IN  /\ out.parsed[k].lat = DefaultedLat(loc)
               /\ out.parsed[k].lon = DefaultedLon(loc)

\* C14: a record with any subset of its location, duration and coordinate
\* fields missing is parsed without failure and the later record is parsed
\* too; a missing latitude decodes to 0 and the longitude is read from
\* longitudeE7, else from lngE7, else is 0.
C14_MissingFieldsDefault == pc = "parse_out" => DefaultsApplied

\* The dict-based parser of animate_timeline_real_nyc.py does so
RealParseDefaultsMissingFields ==
    (pc = "parse_out" /\ out.variant = "real") => DefaultsApplied

\* The parser of animate_timeline_real_nyc_og.py reads location_data["latitudeE7"]
\* and raises KeyError when the first record has no latitude
OgParseFailsOnMissingLatitude ==
    (pc = "parse_out" /\ out.variant = "og" /\ ~Has(RawLocation(inp[1]), "latitudeE7"))
        => ~out.ok

(***************************************************************************)
(* A timeline without activities                                           *)
(***************************************************************************)
NoActivities == Len(parse_timeline_data(doc)) = 0

\* C15: for a timeline with no activity, hence no coordinate, the pipeline
\* never gets past the bounds computation, which fails, and no scene
\* directive is ever emitted.
C15_EmptyTimelineFailsBeforeDirectives ==
    NoActivities =>
        /\ directives = <<>>
        /\ map_bounds = <<>>
        /\ pc \in {"start", "parsed", "loaded", "snapped", "error"}
        /\ (pc = "error" /\ real_load_subway_data(features).ok)
               => ~generate_map_image(activities).ok

\* a document of records that are neither place visits nor segments has failed
C15_Witness ==
    /\ NoActivities
    /\ Len(doc) > 0
    /\ pc = "error"
    /\ Len(stations.rows) > 0

\* og: the same on the locations and segments of the dataclass parser
OgNoActivities ==
    LET r == og_parse_timeline_data(doc)
    IN  r.ok /\ Len(r.locations) = 0 /\ Len(r.segments) = 0

OgEmptyTimelineFailsBeforeDirectives ==
    OgNoActivities =>
        /\ directives = <<>>
        /\ map_bounds = <<>>
        /\ pc \in {"start", "parsed", "error"}

(***************************************************************************)
(* Snapping against an empty station layer                                 *)
(***************************************************************************)
EmptyStationSet == Len(load_subway_data(features).stations.rows) = 0

SubwayWithWaypoints(activity) == IsSubway(activity) /\ Len(activity.waypoints) > 0

\* C16: with a station set that was loaded and is empty, snapping a subway
\* segment raises no error and leaves the segment with an empty snapped
\* sequence.
C16_EmptyStationSetSnapsToEmpty ==
    (/\ EmptyStationSet
     /\ real_load_subway_data(features).ok
     /\ pc \notin {"start", "parsed", "loaded"}) =>
        \A a \in 1..Len(activities) :
            SubwayWithWaypoints(activities[a]) =>
                /\ pc # "error"
                /\ Has(activities[a], "snapped_stations")
                /\ activities[a].snapped_stations = <<>>

\* og: find_nearest_station returns (None, None) for an empty layer, so the
\* snapped sequence is empty and the run goes on
OgEmptyStationSetSnapsToEmpty ==
    (EmptyStationSet /\ map_bounds # <<>> /\ pc \notin {"mapped", "loaded"}) =>
        /\ pc # "error"
        /\ snapped = [indices |-> <<>>, data |-> <<>>]

OgSnappedAgainstEmptySet ==
    /\ EmptyStationSet
    /\ pc = "done"
    /\ Len(og_subway_segments(activities.segments)) > 0

(***************************************************************************)
(* Colour extraction on collections of line features whose line-metadata   *)
(* field is absent, null, or one of the texts below.  The field is written *)
(* under both names the variants read: properties (real) and lines (og).   *)
(***************************************************************************)
MaxColourLines == 2

MetaValues == {None, "", "N/A"} \cup DOMAIN JsonDocs

MetaProps == {EmptyDict} \cup {[lines |-> v, properties |-> v] : v \in MetaValues}

ColourCollections ==
    UNION {[1..n -> {LineFeature(p) : p \in MetaProps}] : n \in 1..MaxColourLines}

ColourInit ==
    /\ pc = "colour_in"
    /\ inp \in ColourCollections
    /\ out = <<>>
    /\ Idle

\* real: load_subway_data up to and including _process_line_colors
ColourReal ==
    /\ pc = "colour_in"
    /\ LET r == process_line_colors(load_subway_data(inp).lines)
       IN  out' = [variant |-> "real", ok |-> r.ok,
                   colours |-> IF r.ok
                               THEN [k \in 1..Len(r.lines.rows) |-> r.lines.rows[k].line_color]
                               ELSE <<>>]
    /\ pc' = "colour_out"
    /\ UNCHANGED <<inp, IdleVars>>

\* og: the colour chosen for each line in the plotting loop
ColourOg ==
    /\ pc = "colour_in"
    /\ LET lines == load_subway_data(inp).lines
       IN  out' = [variant |-> "og", ok |-> TRUE,
                   colours |-> [k \in 1..Len(lines.rows) |-> og_line_color(lines, lines.rows[k])]]
    /\ pc' = "colour_out"
    /\ UNCHANGED <<inp, IdleVars>>

NextColour == ColourReal \/ ColourOg

SpecColour == ColourInit /\ [][NextColour]_vars

\* The metadata value of a line feature; None when it has none
MetaValue(feature) == Get(feature.props, "properties", None)

\* The value is a JSON list whose first element is an object with a colour
HasFirstColour(v) ==
    /\ v \in DOMAIN JsonDocs
    /\ JsonDocs[v].kind = "list"
    /\ Len(JsonDocs[v].items) > 0
    /\ JsonDocs[v].items[1].kind = "dict"
    /\ Has(JsonDocs[v].items[1].d, "color")

FirstColour(v) == JsonDocs[v].items[1].d["color"]

DefaultColour == [real |-> "#000000", og |-> "#0039A6"]

\* Every line got the first element's colour (bare or as "#" + colour), or
\* the variant's default colour when there is none
ColoursExtracted ==
    /\ out.ok
    /\ Len(out.colours) = Len(inp)
    /\ \A k \in 1..Len(inp) :
           LET v == MetaValue(inp[k])
           IN  IF HasFirstColour(v)
               THEN out.colours[k] \in {FirstColour(v), "#" \o FirstColour(v)}
               ELSE out.colours[k] = DefaultColour[out.variant]

\* C17: colour extraction never raises; it yields the default colour for an
\* absent, null, non-JSON, non-list, empty-list or colourless value and the
\* first element's colour otherwise.
C17_ColourExtractionIsTotal == pc = "colour_out" => ColoursExtracted

MetaColumnPresent == \E k \in 1..Len(inp) : Has(inp[k].props, "properties")

\* real: total on every collection in which some feature carries the field
RealColourTotalWithColumn ==
    (pc = "colour_out" /\ out.variant = "real") =>
        IF MetaColumnPresent THEN ColoursExtracted ELSE ~out.ok

\* og: total on every collection
OgColourTotal == (pc = "colour_out" /\ out.variant = "og") => ColoursExtracted

(***************************************************************************)
(* Projection on bounds of zero span                                       *)
(***************************************************************************)
ZeroLngSpan(b) == b[1] = b[3]
ZeroLatSpan(b) == b[2] = b[4]

\* C18: projection never fails, and on an axis whose span is exactly zero
\* the scene coordinate is 0 (normalised position 0.5).
C18_ProjectionNeverFails ==
    pc = "proj_out" =>
        /\ out.real.ok
        /\ ZeroLngSpan(inp.bounds) => (out.real.pt[1] = R(0) /\ out.og[1] = R(0))
        /\ ZeroLatSpan(inp.bounds) => (out.real.pt[2] = R(0) /\ out.og[2] = R(0))

\* og: to_scene_coords guards both divisions
OgZeroSpanProjectsToMiddle ==
    pc = "proj_out" =>
        /\ ZeroLngSpan(inp.bounds) => out.og[1] = R(0)
        /\ ZeroLatSpan(inp.bounds) => out.og[2] = R(0)

\* real: lat_lng_to_manim fails exactly on the boxes with a zero span
RealProjectionFailsOnZeroSpan ==
    pc = "proj_out" => (out.real.ok <=> NonZeroSpan(inp.bounds))

\* real: generate_map_image returns such a box for a single place visit
RealBoundsOfOnePointHaveZeroSpan ==
    Mapped /\ Len(activities) = 1 /\ activities[1].type = "place_visit"
        => (ZeroLngSpan(map_bounds) /\ ZeroLatSpan(map_bounds))

(***************************************************************************)
(* The subway branch of the two sequencers, applied to a timeline of one   *)
(* subway segment after its own pipeline has loaded the stations, snapped  *)
(* the segment and computed the bounds.                                    *)
(***************************************************************************)
MaxStops == 3

SubFrom == [latitudeE7 |-> E7(180), longitudeE7 |-> E7(100)]
SubTo == [latitudeE7 |-> E7(190), longitudeE7 |-> E7(300)]

\* waypoints on station X, on station Y and far from both
SubwayWps == {Wp(100, 150), Wp(100, 230), Wp(170, 200)}
SubwayPaths == UNION {[1..n -> SubwayWps] : n \in 0..MaxStops}

\* station X named under both keys the variants read; station Y unnamed
NamedX == PointFeature(100, 150,
              [name |-> "34 St", station_label |-> "34 St", properties |-> RedLine])
SubwayFeatureSets == {<<LineXY>>, <<StX, StY>>, <<NamedX, StY>>}

SubwayInit ==
    /\ pc = "subway_in"
    /\ \E wps \in SubwayPaths, fs \in SubwayFeatureSets :
           inp = [doc |-> <<Segment("IN_SUBWAY", SubFrom, SubTo, wps)>>, features |-> fs]
    /\ out = <<>>
    /\ Idle

Failed(variant) ==
    [variant |-> variant, ok |-> FALSE, snapped |-> <<>>, bounds |-> <<>>, ds |-> <<>>]

\* real: construct on the one-segment timeline, stage by stage; each stage
\* takes the results of the stages before it
real_animated(stops, b, r) ==
    IF ~r.ok THEN Failed("real")
    ELSE [variant |-> "real", ok |-> TRUE,
          snapped |-> [k \in 1..Len(stops) |->
              [lat |-> stops[k].lat, lng |-> stops[k].lng,
               station_name |-> stops[k].station_name,
               journey_order |-> stops[k].journey_order]],
          bounds |-> b, ds |-> r.ds]

real_mapped(activity, g) ==
    IF ~g.ok THEN Failed("real")
    ELSE real_animated(Get(activity, "snapped_stations", <<>>), g.bounds,
                       animate_activity(activity, g.bounds))

real_snapped(s) ==
    IF ~s.ok THEN Failed("real")
    ELSE real_mapped(s.activities[1], generate_map_image(s.activities))

real_loaded(loaded, acts) ==
    IF ~loaded.ok THEN Failed("real")
    ELSE real_snapped(snap_subway_journey_to_infrastructure(loaded.stations, acts))

SubwayReal ==
    /\ pc = "subway_in"
    /\ out' = real_loaded(real_load_subway_data(inp.features), parse_timeline_data(inp.doc))
    /\ pc' = "subway_out"
    /\ UNCHANGED <<inp, IdleVars>>

\* og: construct on the one-segment timeline, stage by stage
og_animated(segment, s, b) ==
    IF ~s.ok THEN Failed("og")
    ELSE [variant |-> "og", ok |-> TRUE,
          snapped |-> [k \in 1..Len(s.data) |->
              [lat |-> s.data[k].geometry[2], lng |-> s.data[k].geometry[1],
               station_name |-> s.data[k].station_name,
               journey_order |-> s.data[k].journey_order]],
          bounds |-> b,
          ds |-> og_animate_segment(segment, s.data, b, FALSE)]

og_mapped(segments, m, stations_gdf) ==
    IF ~m.ok THEN Failed("og")
    ELSE og_animated(segments[1],
                     og_snap_subway_journey_to_infrastructure(segments, stations_gdf),
                     m.bounds)

og_parsed(p, feats) ==
    IF ~p.ok THEN Failed("og")
    ELSE og_mapped(p.segments, og_generate_real_transit_map(p.locations, p.segments),
                   load_subway_data(feats).stations)

SubwayOg ==
    /\ pc = "subway_in"
    /\ out' = og_parsed(og_parse_timeline_data(inp.doc), inp.features)
    /\ pc' = "subway_out"
    /\ UNCHANGED <<inp, IdleVars>>

NextSubway == SubwayReal \/ SubwayOg

SpecSubway == SubwayInit /\ [][NextSubway]_vars

\* The scene point of a coordinate under the variant's own projector
ScenePoint(variant, b, lat, lng) ==
    IF variant = "real" THEN lat_lng_to_manim(b, lat, lng).pt ELSE to_scene_coords(b, lat, lng)

NotWaits(ds) == SelectSeq(ds, NotWait)

\* The directives without waits, as (operation, point, text)
Steps(ds) ==
    [k \in 1..Len(NotWaits(ds)) |->
        <<NotWaits(ds)[k].op, NotWaits(ds)[k].pt, NotWaits(ds)[k].text>>]

SubwayAnimated == pc = "subway_out" /\ out.ok

\* C19: a subway segment whose snapping produced no station is animated as
\* the generic two-point movement: a move to the projected start, then a
\* move to the projected end.
C19_UnsnappedSubwayDegradesToTwoPoints ==
    (SubwayAnimated /\ Len(out.snapped) = 0) =>
        Steps(out.ds) =
            <<<<"move_marker", ScenePoint(out.variant, out.bounds, R(180), R(100)), "">>,
              <<"move_marker", ScenePoint(out.variant, out.bounds, R(190), R(300)), "">>>>

\* What both variants do instead: nothing at all
UnsnappedSubwayEmitsNothing ==
    (SubwayAnimated /\ Len(out.snapped) = 0) => out.ds = <<>>

\* The label of a snapped station: its name, or the synthesised "Station N"
StationLabel(stop) ==
    IF Truthy(stop.station_name) THEN stop.station_name
    ELSE "Station " \o ToString(stop.journey_order)

\* move, show label, hide label for every snapped station, in journey order;
\* the first station's marker directive is first_op
StationSteps(variant, b, stops, first_op) ==
    Flatten([k \in 1..Len(stops) |->
        <<<<IF k = 1 THEN first_op ELSE "move_marker",
            ScenePoint(variant, b, stops[k].lat, stops[k].lng), "">>,
          <<"show_label", <<>>, StationLabel(stops[k])>>,
          <<"hide_label", <<>>, StationLabel(stops[k])>>>>])

\* C20: a subway segment with k >= 1 snapped stations is animated by exactly
\* k marker moves, one per station in journey order, each followed before the
\* next move by a show-label and a hide-label directive for that station,
\* with the label "Station N" for a station without a name.
C20_OneLabelledMovePerSnappedStation ==
    (SubwayAnimated /\ Len(out.snapped) > 0) =>
        Steps(out.ds) = StationSteps(out.variant, out.bounds, out.snapped, "move_marker")

\* real: so it is when every snapped station has a name; a station without
\* one gets its move and no label
RealLabelledMovesForNamedStations ==
    (/\ SubwayAnimated /\ out.variant = "real" /\ Len(out.snapped) > 0
     /\ \A k \in 1..Len(out.snapped) : Truthy(out.snapped[k].station_name)) =>
        Steps(out.ds) = StationSteps("real", out.bounds, out.snapped, "move_marker")

RealUnnamedStationHasNoLabel ==
    (/\ SubwayAnimated /\ out.variant = "real" /\ Len(out.snapped) = 1
     /\ ~Truthy(out.snapped[1].station_name)) =>
        Steps(out.ds) =
            <<<<"move_marker",
                ScenePoint("real", out.bounds, out.snapped[1].lat, out.snapped[1].lng), "">>>>

\* og: every station is labelled, but the first one places the marker with
\* self.add, so k stations give k - 1 moves
OgFirstStationIsPlacedNotMoved ==
    (SubwayAnimated /\ out.variant = "og" /\ Len(out.snapped) > 0) =>
        Steps(out.ds) = StationSteps("og", out.bounds, out.snapped, "add_dot")

(***************************************************************************)
(* The order of a walking segment's directives                             *)
(***************************************************************************)
\* The walking segment of the input, as the dict-based parser reads it
WalkSegment == parse_timeline_data(inp)[1]

\* The bounds the variant's own map generator computes for the input
WalkBounds(variant) ==
    IF variant = "og"
    THEN LET p == og_parse_timeline_data(inp)
         IN  og_generate_real_transit_map(p.locations, p.segments).bounds
    ELSE generate_map_image(parse_timeline_data(inp)).bounds

WalkPoint(variant, lat, lng) ==
    ScenePoint(IF variant = "og" THEN "og" ELSE "real", WalkBounds(variant), lat, lng)

ScaleAt(ds) == {k \in 1..Len(ds) : ds[k].op = "scale_camera"}
MoveAt(ds) == {k \in 1..Len(ds) : ds[k].op = "move_marker"}
IsMarkerMove(d) == d.op = "move_marker"
MarkerTargets(ds) ==
    [k \in 1..Len(SelectSeq(ds, IsMarkerMove)) |-> SelectSeq(ds, IsMarkerMove)[k].pt]

\* The projected waypoints in waypoint order
WaypointTargets(variant) ==
    [k \in 1..Len(WalkSegment.waypoints) |->
        WalkPoint(variant, WalkSegment.waypoints[k].lat, WalkSegment.waypoints[k].lng)]

WalkStart(variant) == WalkPoint(variant, WalkSegment.start_lat, WalkSegment.start_lng)
WalkEnd(variant) == WalkPoint(variant, WalkSegment.end_lat, WalkSegment.end_lng)

\* One zoom-in, then the marker moves (each paired with a pan to the same
\* point when the segment has waypoints), then one zoom-out.  The straight
\* line of a segment without waypoints ends at the projected end; the marker
\* is either moved to the start first or is already on its way from there.
ZoomMovesZoom ==
    LET ds == out.ds
        targets == MarkerTargets(ds)
    IN  /\ Cardinality(ScaleAt(ds)) = 2
        /\ \E i \in ScaleAt(ds), j \in ScaleAt(ds) :
              /\ i < j
              /\ RLt(ds[i].factor, R(1))
              /\ RLt(R(1), ds[j].factor)
              /\ \A k \in MoveAt(ds) : i < k /\ k < j
        /\ IF Len(WalkSegment.waypoints) > 0
           THEN /\ targets = WaypointTargets(out.variant)
                /\ \A k \in MoveAt(ds) :
                      /\ k < Len(ds)
                      /\ ds[k + 1].op = "move_camera"
                      /\ ds[k + 1].pt = ds[k].pt
           ELSE targets \in {<<WalkStart(out.variant), WalkEnd(out.variant)>>,
                             <<WalkEnd(out.variant)>>}

\* C21: the directives of every walking segment are one camera zoom-in, then
\* one marker move paired with a camera pan per waypoint in waypoint order
\* (a straight move from start to end when there are no waypoints), then one
\* camera zoom-out; no marker move lies before the zoom-in or after the
\* zoom-out.
C21_WalkIsZoomMovesZoom == pc = "walk_out" => ZoomMovesZoom

\* What the three variants do: a walking segment whose projections all
\* succeed has that shape
CompletedWalkIsZoomMovesZoom == (pc = "walk_out" /\ out.ok) => ZoomMovesZoom

\* og: every walking segment has that shape
OgWalkIsZoomMovesZoom == (pc = "walk_out" /\ out.variant = "og") => ZoomMovesZoom

\* real and simple: a segment whose points share a latitude or a longitude
\* stops at the first projection
WalkStopsOnZeroSpan ==
    (pc = "walk_out" /\ out.variant # "og" /\
     (ZeroLngSpan(WalkBounds(out.variant)) \/ ZeroLatSpan(WalkBounds(out.variant)))) =>
        (~out.ok /\ MoveAt(out.ds) = {} /\ Cardinality(ScaleAt(out.ds)) < 2)


(***************************************************************************)
(* Segments that are neither subway nor walking: the segment branch of     *)
(* the three sequencers on a timeline of one such segment.                 *)
(***************************************************************************)
RECURSIVE simple_subway_waypoints(_, _, _, _)
simple_subway_waypoints(waypoints, i, b, rec) ==
    IF i > Len(waypoints) THEN [ok |-> TRUE, ds |-> <<>>]
    ELSE LET p == lat_lng_to_manim(b, waypoints[i].lat, waypoints[i].lng)
             rest == simple_subway_waypoints(waypoints, i + 1, b, rec)
             label == IF i = 1
                      THEN <<ShowLabel("Subway", rec), Wait(rec), HideLabel("Subway", rec)>>
                      ELSE <<>>
         IN  IF ~p.ok THEN [ok |-> FALSE, ds |-> <<>>]
             ELSE [ok |-> rest.ok, ds |-> <<Move(p.pt, rec)>> \o label \o rest.ds]

\* SimpleTimelineAnimation._animate_subway_journey
simple_animate_subway_journey(activity, b) ==
    IF Len(activity.waypoints) = 0 THEN start_end(activity, b)
    ELSE simple_subway_waypoints(activity.waypoints, 1, b, activity.rec)

\* SimpleTimelineAnimation._animate_activity_segment
simple_animate_activity_segment(activity, b) ==
    IF activity.activity_type = "WALKING" THEN simple_animate_walking_journey(activity, b)
    ELSE IF activity.activity_type = "IN_SUBWAY" THEN simple_animate_subway_journey(activity, b)
    ELSE start_end(activity, b)

OtherModes == {"DRIVING", "CYCLING", "FLYING"}

WithoutKey(d, k) == [x \in DOMAIN d \ {k} |-> d[x]]

\* A segment record without an activityType
Untyped(record) == [activitySegment |-> WithoutKey(record.activitySegment, "activityType")]

OtherSegments ==
    {Segment(mode, from, to, wps) :
        mode \in OtherModes, from \in {LocA}, to \in WalkLocs, wps \in WalkPaths}

OtherInit ==
    /\ pc = "other_in"
    /\ \E record \in OtherSegments : inp \in {<<record>>, <<Untyped(record)>>}
    /\ out = <<>>
    /\ Idle

\* parse, generate_map_image, then _animate_activity_segment (real)
OtherReal ==
    /\ pc = "other_in"
    /\ LET acts == parse_timeline_data(inp)
           r == animate_activity_segment(acts[1], generate_map_image(acts).bounds)
       IN  out' = [variant |-> "real", ok |-> r.ok, ds |-> r.ds]
    /\ pc' = "other_out"
    /\ UNCHANGED <<inp, IdleVars>>

\* parse, generate_map_image, then _animate_activity_segment (simple)
OtherSimple ==
    /\ pc = "other_in"
    /\ LET acts == parse_timeline_data(inp)
           r == simple_animate_activity_segment(acts[1], generate_map_image(acts).bounds)
       IN  out' = [variant |-> "simple", ok |-> r.ok, ds |-> r.ds]
    /\ pc' = "other_out"
    /\ UNCHANGED <<inp, IdleVars>>

\* parse, generate_real_transit_map, then one iteration of the segment loop
\* of construct (og); current_dot is set or not by what came before
OtherOg ==
    /\ pc = "other_in"
    /\ \E has_dot \in BOOLEAN :
          LET p == og_parse_timeline_data(inp)
              b == og_generate_real_transit_map(p.locations, p.segments).bounds
          IN  out' = [variant |-> "og", ok |-> TRUE,
                      ds |-> og_animate_segment(p.segments[1], <<>>, b, has_dot)]
    /\ pc' = "other_out"
    /\ UNCHANGED <<inp, IdleVars>>

NextOther == OtherReal \/ OtherSimple \/ OtherOg

SpecOther == OtherInit /\ [][NextOther]_vars

\* The two directives of the generic movement under the variant's projector
StartThenEnd ==
    <<<<"move_marker", WalkStart(out.variant)>>, <<"move_marker", WalkEnd(out.variant)>>>>

OpsAndPoints(ds) == [k \in 1..Len(ds) |-> <<ds[k].op, ds[k].pt>>]

\* C22: a segment whose mode is neither subway nor walking is animated,
\* whatever its number of waypoints, by exactly two directives: a move to the
\* projected start, then a move to the projected end.
C22_OtherModeIsStartThenEnd ==
    pc = "other_out" => OpsAndPoints(out.ds) = StartThenEnd

\* real and simple: the two moves, whenever the projections succeed
RealOtherModeIsStartThenEnd ==
    (pc = "other_out" /\ out.variant # "og" /\ out.ok) =>
        OpsAndPoints(out.ds) = StartThenEnd

\* og: the marker is moved to each waypoint, or to the end when there are
\* none; it is never moved to the start, and with waypoints never to the end
OgOtherModeFollowsWaypoints ==
    (pc = "other_out" /\ out.variant = "og") =>
        MarkerTargets(out.ds) =
            (IF Len(WalkSegment.waypoints) > 0 THEN WaypointTargets("og")
             ELSE <<WalkEnd("og")>>)


(***************************************************************************)
(* Place visits: the place-visit step of the three sequencers on the first *)
(* record of a timeline that is a place visit, alone or followed by a      *)
(* second visit elsewhere.                                                 *)
(***************************************************************************)
\* SimpleTimelineAnimation._animate_place_visit
simple_animate_place_visit(activity, b) ==
    LET p == lat_lng_to_manim(b, activity.lat, activity.lng)
        place_name == activity.place_name
    IN  IF ~p.ok THEN [ok |-> FALSE, ds |-> <<>>]
        ELSE [ok |-> TRUE,
              ds |-> <<Move(p.pt, activity.rec)>>
                     \o (IF Truthy(place_name) /\ place_name # "Unknown Place"
                         THEN <<ShowLabel(place_name, activity.rec), Wait(activity.rec),
                                HideLabel(place_name, activity.rec)>>
                         ELSE <<Wait(activity.rec)>>)]

VisitNames == {"", "A", "Unknown Place"}

VisitLocations ==
    WalkLocs \cup {WithKey(loc, "name", name) : loc \in WalkLocs, name \in VisitNames}

VisitInit ==
    /\ pc = "visit_in"
    /\ \E location \in VisitLocations :
          LET record == [placeVisit |-> [location |-> location, duration |-> Dur]]
          IN  inp \in {<<record>>, <<record, RecVisitB>>}
    /\ out = <<>>
    /\ Idle

\* parse, generate_map_image, then _animate_place_visit (real)
VisitReal ==
    /\ pc = "visit_in"
    /\ LET acts == parse_timeline_data(inp)
           r == animate_place_visit(acts[1], generate_map_image(acts).bounds)
       IN  out' = [variant |-> "real", ok |-> r.ok, ds |-> r.ds]
    /\ pc' = "visit_out"
    /\ UNCHANGED <<inp, IdleVars>>

\* parse, generate_map_image, then _animate_place_visit (simple)
VisitSimple ==
    /\ pc = "visit_in"
    /\ LET acts == parse_timeline_data(inp)
           r == simple_animate_place_visit(acts[1], generate_map_image(acts).bounds)
       IN  out' = [variant |-> "simple", ok |-> r.ok, ds |-> r.ds]
    /\ pc' = "visit_out"
    /\ UNCHANGED <<inp, IdleVars>>

\* parse, generate_real_transit_map, then the first iteration of the loop
\* over locations of construct (og)
VisitOg ==
    /\ pc = "visit_in"
    /\ LET p == og_parse_timeline_data(inp)
           b == og_generate_real_transit_map(p.locations, p.segments).bounds
       IN  out' = [variant |-> "og", ok |-> TRUE, ds |-> og_place_marker(p.locations[1], b)]
    /\ pc' = "visit_out"
    /\ UNCHANGED <<inp, IdleVars>>

NextVisit == VisitReal \/ VisitSimple \/ VisitOg

SpecVisit == VisitInit /\ [][NextVisit]_vars

\* The name of the visit in the document; None when it has none
VisitName == Get(inp[1].placeVisit.location, "name", None)

VisitPoint(variant) ==
    LET a == parse_timeline_data(inp)[1]
    IN  WalkPoint(variant, a.lat, a.lng)

IsLabelOp(d) == d.op \in {"show_label", "hide_label"}

OpsPointsTexts(ds) == [k \in 1..Len(ds) |-> <<ds[k].op, ds[k].pt, ds[k].text>>]

\* A move to the projected point, then the label triple when the visit is
\* named, and no label directive when it is not
MoveThenLabelIfNamed ==
    LET ds == out.ds
    IN  /\ Len(ds) > 0
        /\ ds[1].op = "move_marker"
        /\ ds[1].pt = VisitPoint(out.variant)
        /\ IF Truthy(VisitName)
           THEN OpsPointsTexts(Tail(ds)) =
                    <<<<"show_label", <<>>, VisitName>>, <<"wait", <<>>, "">>,
                      <<"hide_label", <<>>, VisitName>>>>
           ELSE SelectSeq(ds, IsLabelOp) = <<>>

\* C23: a place visit is animated by a marker move to its projected point,
\* followed by show-label, wait, hide-label exactly when the visit has a
\* name, and by no label directive when it has none.
C23_VisitIsMoveThenLabelIfNamed == pc = "visit_out" => MoveThenLabelIfNamed

\* simple: the claimed directives, except for a visit whose name is the
\* placeholder text of the parser
SimpleVisitIsMoveThenLabel ==
    (pc = "visit_out" /\ out.variant = "simple" /\ out.ok /\ VisitName # "Unknown Place") =>
        MoveThenLabelIfNamed

\* real: a move and a wait, never a label
RealVisitHasNoLabel ==
    (pc = "visit_out" /\ out.variant = "real" /\ out.ok) =>
        OpsPointsTexts(out.ds) =
            <<<<"move_marker", VisitPoint("real"), "">>, <<"wait", <<>>, "">>>>

\* og: a marker and a label that is never hidden for a named visit, nothing
\* for an unnamed one, and no marker move in either case
OgVisitShowsMarkerIfNamed ==
    (pc = "visit_out" /\ out.variant = "og") =>
        OpsPointsTexts(out.ds) =
            (IF Truthy(VisitName)
             THEN <<<<"show_marker", VisitPoint("og"), "">>,
                    <<"show_label", <<>>, VisitName>>, <<"wait", <<>>, "">>>>
             ELSE <<>>)


(***************************************************************************)
(* The snap candidates of a subway segment: the two snappers on a timeline *)
(* of one subway segment and a layer of two stations, X and Y.  Start, end *)
(* and waypoints each lie on a station or far from both.                   *)
(***************************************************************************)
MaxCandidates == 2      \* waypoints of the segment

OnX == [latitudeE7 |-> E7(100), longitudeE7 |-> E7(150)]
OnY == [latitudeE7 |-> E7(100), longitudeE7 |-> E7(230)]

JourneyPaths == UNION {[1..n -> SubwayWps] : n \in 0..MaxCandidates}

JourneyInit ==
    /\ pc = "journey_in"
    /\ \E from \in {OnX, SubFrom}, to \in {OnY, SubTo}, wps \in JourneyPaths :
           inp = [doc |-> <<Segment("IN_SUBWAY", from, to, wps)>>, features |-> <<StX, StY>>]
    /\ out = <<>>
    /\ Idle

real_journey(s) ==
    IF ~s.ok THEN [variant |-> "real", ok |-> FALSE, stations |-> <<>>]
    ELSE LET stops == Get(s.activities[1], "snapped_stations", <<>>)
         IN  [variant |-> "real", ok |-> TRUE,
              stations |-> [k \in 1..Len(stops) |-> <<stops[k].lng, stops[k].lat>>]]

\* load_subway_data, parse_timeline_data, snap_subway_journey_to_infrastructure (real)
JourneyReal ==
    /\ pc = "journey_in"
    /\ out' = real_journey(snap_subway_journey_to_infrastructure(
                  real_load_subway_data(inp.features).stations,
                  parse_timeline_data(inp.doc)))
    /\ pc' = "journey_out"
    /\ UNCHANGED <<inp, IdleVars>>

og_journey(s) ==
    IF ~s.ok THEN [variant |-> "og", ok |-> FALSE, stations |-> <<>>]
    ELSE [variant |-> "og", ok |-> TRUE,
          stations |-> [k \in 1..Len(s.data) |-> s.data[k].geometry]]

\* parse_timeline_data, load_nyc_subway_system, snap_subway_journey_to_infrastructure (og)
JourneyOg ==
    /\ pc = "journey_in"
    /\ out' = og_journey(og_snap_subway_journey_to_infrastructure(
                  og_parse_timeline_data(inp.doc).segments,
                  load_subway_data(inp.features).stations))
    /\ pc' = "journey_out"
    /\ UNCHANGED <<inp, IdleVars>>

NextJourney == JourneyReal \/ JourneyOg

SpecJourney == JourneyInit /\ [][NextJourney]_vars

JourneySegment == parse_timeline_data(inp.doc)[1]

\* start, each waypoint, end: as (lat, lng)
Candidates ==
    <<<<JourneySegment.start_lat, JourneySegment.start_lng>>>>
    \o [k \in 1..Len(JourneySegment.waypoints) |->
           <<JourneySegment.waypoints[k].lat, JourneySegment.waypoints[k].lng>>]
    \o <<<<JourneySegment.end_lat, JourneySegment.end_lng>>>>

\* The station a point snaps to, as a list of none or one
StationOf(gdf, point) ==
    IF WithinTolerance(MinDist2(gdf, point[1], point[2]))
    THEN <<gdf.rows[FirstNearest(gdf, point[1], point[2])].coords[1]>>
    ELSE <<>>

StationsOfCandidates ==
    Flatten([k \in 1..Len(Candidates) |->
                StationOf(Layer(inp.features, "Point"), Candidates[k])])

RECURSIVE FirstOccurrences(_)
FirstOccurrences(s) ==
    IF Len(s) = 0 THEN <<>>
    ELSE LET front == FirstOccurrences(SubSeq(s, 1, Len(s) - 1))
         IN  IF \E k \in 1..Len(front) : front[k] = s[Len(s)] THEN front
             ELSE Append(front, s[Len(s)])

\* C24: the stations of a subway segment are those of its start, its
\* waypoints and its end, in that order; a point without a station in
\* tolerance contributes nothing and the points after it are still snapped.
\* (Repeated stations are compared by their first occurrence.)
C24_CandidatesAreStartWaypointsEnd ==
    pc = "journey_out" =>
        (out.ok /\ FirstOccurrences(out.stations) = FirstOccurrences(StationsOfCandidates))

\* og: start, waypoints and end are all candidates
OgCandidatesAreStartWaypointsEnd ==
    (pc = "journey_out" /\ out.variant = "og") =>
        (out.ok /\ out.stations = FirstOccurrences(StationsOfCandidates))

\* real: the waypoints alone are candidates; a far waypoint does not keep
\* the later ones from being snapped
RealCandidatesAreWaypoints ==
    (pc = "journey_out" /\ out.variant = "real") =>
        (out.ok /\ out.stations =
            Flatten([k \in 1..Len(JourneySegment.waypoints) |->
                        StationOf(Layer(inp.features, "Point"),
                                  <<JourneySegment.waypoints[k].lat,
                                    JourneySegment.waypoints[k].lng>>)]))

\* real: a segment without waypoints yields no station, wherever it starts
\* and ends
RealNoWaypointsNoStations ==
    (pc = "journey_out" /\ out.variant = "real" /\ Len(JourneySegment.waypoints) = 0) =>
        out.stations = <<>>


(***************************************************************************)
(* Timelines of several legs: the two pipelines on documents of up to      *)
(* MaxLegs records, among them three different subway segments, over the   *)
(* station layer <<X, Y>>.                                                 *)
(***************************************************************************)
MaxLegs == 2

SubwayViaX == Segment("IN_SUBWAY", SubFrom, SubTo, <<Wp(100, 150)>>)
SubwayViaY == Segment("IN_SUBWAY", SubTo, SubFrom, <<Wp(100, 230)>>)
SubwayViaXY == Segment("IN_SUBWAY", SubFrom, SubTo, <<Wp(100, 150), Wp(100, 230)>>)

Legs == {SubwayViaX, SubwayViaY, SubwayViaXY, RecWalk, RecVisitA}

LegDocs == UNION {[1..n -> Legs] : n \in 1..MaxLegs}

LegsInit ==
    /\ pc = "start"
    /\ doc \in LegDocs
    /\ features = <<StX, StY>>
    /\ activities = <<>>
    /\ stations = [rows |-> <<>>, columns |-> {}]
    /\ snapped = <<>>
    /\ map_bounds = <<>>
    /\ cursor = 1
    /\ dot = FALSE
    /\ directives = <<>>
    /\ inp = <<>>
    /\ out = <<>>

\* construct of the dict-based pipeline on these timelines
SpecLegs == LegsInit /\ [][Next]_vars

\* construct of the dataclass-based pipeline on these timelines
SpecOgLegs == LegsInit /\ [][NextOg]_vars

\* The points the marker is put on by the directives of record rec
PlacesMarker(d) == d.op \in {"move_marker", "add_dot"}
MarkerPlaces(ds, rec) ==
    LET OfRecord(d) == d.rec = rec /\ PlacesMarker(d)
    IN  [k \in 1..Len(SelectSeq(ds, OfRecord)) |-> SelectSeq(ds, OfRecord)[k].pt]

LabelsOf(ds, rec) ==
    LET OfRecord(d) == d.rec = rec /\ d.op = "show_label"
    IN  SelectSeq(ds, OfRecord)

\* og: the stations snapped from the points of one segment alone, projected
OgOwnStations(segment) ==
    LET own == og_snap_subway_journey_to_infrastructure(<<segment>>, stations).data
    IN  [k \in 1..Len(own) |-> to_scene_coords(map_bounds, own[k].geometry[2],
                                               own[k].geometry[1])]

\* C25: every subway segment of a timeline is animated through the stations
\* snapped from its own points, never through those of another segment, and
\* a segment that is not a subway segment is animated through no station.
\* Stated on the dataclass-based pipeline.
C25_EachSubwaySegmentUsesOwnStations ==
    pc = "done" =>
        \A j \in 1..Len(activities.segments) :
            LET segment == activities.segments[j]
            IN  IF segment.activity_type = "IN_SUBWAY"
                THEN MarkerPlaces(directives, segment.rec) = OgOwnStations(segment)
                ELSE LabelsOf(directives, segment.rec) = <<>>

\* og: every subway segment is animated through the stations of the first
\* subway segment of the timeline
OgEverySubwaySegmentUsesFirstStations ==
    pc = "done" =>
        \A j \in 1..Len(activities.segments) :
            LET segment == activities.segments[j]
            IN  segment.activity_type = "IN_SUBWAY" =>
                    MarkerPlaces(directives, segment.rec) =
                        OgOwnStations(og_subway_segments(activities.segments)[1])

\* real: the stations snapped from the waypoints of one activity, projected
RealOwnStations(activity) ==
    LET own == snap_waypoints(stations, activity.waypoints, 1).list
    IN  [k \in 1..Len(own) |-> lat_lng_to_manim(map_bounds, own[k].lat, own[k].lng).pt]

\* The same statement on the dict-based pipeline
RealEachSubwaySegmentUsesOwnStations ==
    pc = "done" =>
        \A a \in 1..Len(activities) :
            IF IsSubway(activities[a])
            THEN MarkerPlaces(directives, activities[a].rec) = RealOwnStations(activities[a])
            ELSE ~Has(activities[a], "snapped_stations")


(***************************************************************************)
(* The bounds of a timeline: the two map generators on documents of up to  *)
(* MaxBoundsRecords records.                                               *)
(***************************************************************************)
MaxBoundsRecords == 2

\* visits far to the east and far to the north of the others
RecVisitEast == [placeVisit |-> [location |-> [latitudeE7 |-> E7(100),
                                               longitudeE7 |-> E7(900)],
                                 duration |-> Dur]]
RecVisitNorth == [placeVisit |-> [location |-> [latitudeE7 |-> E7(900),
                                                longitudeE7 |-> E7(100)],
                                  duration |-> Dur]]

BoundsDocs ==
    UNION {[1..n -> RecordKinds \cup {RecVisitEast, RecVisitNorth}] :
               n \in 0..MaxBoundsRecords}

BoundsInit ==
    /\ pc = "bounds_in"
    /\ inp \in BoundsDocs
    /\ out = <<>>
    /\ Idle

\* parse_timeline_data, then generate_map_image (real)
BoundsReal ==
    /\ pc = "bounds_in"
    /\ LET g == generate_map_image(parse_timeline_data(inp))
       IN  out' = [variant |-> "real", ok |-> g.ok, bounds |-> g.bounds]
    /\ pc' = "bounds_out"
    /\ UNCHANGED <<inp, IdleVars>>

og_bounds(p) ==
    IF ~p.ok THEN [variant |-> "og", ok |-> FALSE, bounds |-> <<>>]
    ELSE LET g == og_generate_real_transit_map(p.locations, p.segments)
         IN  [variant |-> "og", ok |-> g.ok, bounds |-> g.bounds]

\* parse_timeline_data, then generate_real_transit_map (og)
BoundsOg ==
    /\ pc = "bounds_in"
    /\ out' = og_bounds(og_parse_timeline_data(inp))
    /\ pc' = "bounds_out"
    /\ UNCHANGED <<inp, IdleVars>>

NextBounds == BoundsReal \/ BoundsOg

SpecBounds == BoundsInit /\ [][NextBounds]_vars

\* The coordinates of an activity: a visit's location; a segment's start,
\* end and waypoints.  As (lat, lng).
ActivityPoints(a) ==
    IF a.type = "place_visit" THEN {<<a.lat, a.lng>>}
    ELSE {<<a.start_lat, a.start_lng>>, <<a.end_lat, a.end_lng>>}
         \cup {<<a.waypoints[w].lat, a.waypoints[w].lng>> : w \in 1..Len(a.waypoints)}

TimelinePoints ==
    UNION {ActivityPoints(parse_timeline_data(inp)[k]) :
               k \in 1..Len(parse_timeline_data(inp))}

Least(S) == CHOOSE x \in S : \A y \in S : RLe(x, y)
Greatest(S) == CHOOSE x \in S : \A y \in S : RLe(y, x)

Lats == {p[1] : p \in TimelinePoints}
Lngs == {p[2] : p \in TimelinePoints}

SameMidpoint(lo, hi, S) == RAdd(lo, hi) = RAdd(Least(S), Greatest(S))

Bounded == pc = "bounds_out" /\ out.ok

\* C26: the bounds of a non-empty activity set contain every coordinate of
\* every activity, and on each axis their midpoint is the midpoint of the
\* least and greatest coordinate: the corrections and the padding only grow
\* the raw box, symmetrically about its centre.
C26_BoundsGrowAboutCentre ==
    Bounded =>
        /\ \A p \in TimelinePoints :
              /\ RLe(out.bounds[1], p[2]) /\ RLe(p[2], out.bounds[3])
              /\ RLe(out.bounds[2], p[1]) /\ RLe(p[1], out.bounds[4])
        /\ SameMidpoint(out.bounds[1], out.bounds[3], Lngs)
        /\ SameMidpoint(out.bounds[2], out.bounds[4], Lats)

\* A timeline of several points whose latitudes span less than the minimum
\* and whose box is too narrow for the target aspect: og corrects the
\* latitude span, widens the longitudes and pads
C26_Witness ==
    /\ Bounded
    /\ out.variant = "og"
    /\ Cardinality(TimelinePoints) >= 3
    /\ RLt(RSub(Greatest(Lats), Least(Lats)), R(min_range))
    /\ RLt(R(0), RSub(Greatest(Lngs), Least(Lngs)))
    /\ RLt(out.bounds[1], RSub(Least(Lngs), R(min_range)))

\* The bounds are computed exactly when the timeline has a coordinate
BoundsIffNonEmpty == pc = "bounds_out" => (out.ok <=> TimelinePoints # {})


(***************************************************************************)
(* The waypoints of a segment record: both parsers on the same record.     *)
(* The record may hold a waypoint list under "waypoints", under            *)
(* "waypointPath" / "waypoints", under both or under neither.              *)
(***************************************************************************)
WaypointRecords ==
    {[activitySegment |->
        [startLocation |-> LocA, endLocation |-> LocB, duration |-> Dur,
         activityType |-> "WALKING"]
        @@ Opt("waypoints", hw, direct)
        @@ Opt("waypointPath", hp, [waypoints |-> path])] :
        hw \in BOOLEAN, hp \in BOOLEAN, direct \in WalkPaths, path \in WalkPaths}

WaypointsInit ==
    /\ pc = "waypoints_in"
    /\ \E record \in WaypointRecords : inp = <<record>>
    /\ out = <<>>
    /\ Idle

\* real: parse_timeline_data on the record
WaypointsReal ==
    /\ pc = "waypoints_in"
    /\ LET acts == parse_timeline_data(inp)
       IN  out' = [real |-> [k \in 1..Len(acts[1].waypoints) |->
                                <<acts[1].waypoints[k].lat, acts[1].waypoints[k].lng>>]]
    /\ pc' = "waypoints_real"
    /\ UNCHANGED <<inp, IdleVars>>

og_waypoints(p) ==
    IF ~p.ok THEN [ok |-> FALSE, waypoints |-> <<>>]
    ELSE [ok |-> TRUE,
          waypoints |-> [k \in 1..Len(p.segments[1].waypoints) |->
                            <<p.segments[1].waypoints[k].lat,
                              p.segments[1].waypoints[k].lon>>]]

\* og: parse_timeline_data on the same record
WaypointsOg ==
    /\ pc = "waypoints_real"
    /\ out' = [real |-> out.real, og |-> og_waypoints(og_parse_timeline_data(inp))]
    /\ pc' = "waypoints_out"
    /\ UNCHANGED <<inp, IdleVars>>

NextWaypoints == WaypointsReal \/ WaypointsOg

SpecWaypoints == WaypointsInit /\ [][NextWaypoints]_vars

\* The waypoint list of the record: the one under waypointPath when the
\* record has that key, the one under waypoints otherwise
RecordWaypoints ==
    LET segment == inp[1].activitySegment
    IN  IF Has(segment, "waypointPath") THEN segment.waypointPath.waypoints
        ELSE Get(segment, "waypoints", <<>>)

\* latE7 / 1e7, lngE7 / 1e7
Decoded(waypoints) ==
    [k \in 1..Len(waypoints) |->
        <<e7_to_decimal(waypoints[k].latE7), e7_to_decimal(waypoints[k].lngE7)>>]

\* C27: the dict-based and the dataclass-based parser extract the same
\* waypoint sequence from the same segment record: one waypoint per entry of
\* the record's waypoint list, in order, decoded from its E7 values; none
\* only when the record has none.
C27_ParsersExtractSameWaypoints ==
    pc = "waypoints_out" =>
        /\ out.og.ok
        /\ out.real = out.og.waypoints
        /\ out.real = Decoded(RecordWaypoints)

\* real reads the key waypoints of the segment and nothing else
RealReadsWaypointsKey ==
    pc = "waypoints_out" =>
        out.real = Decoded(Get(inp[1].activitySegment, "waypoints", <<>>))

\* og reads waypointPath / waypoints and nothing else
OgReadsWaypointPath ==
    pc = "waypoints_out" =>
        /\ out.og.ok
        /\ out.og.waypoints =
               Decoded(Get(Get(inp[1].activitySegment, "waypointPath",
                               [waypoints |-> <<>>]), "waypoints", <<>>))

\* The two parsers agree on a record that holds the same list in both places
ParsersAgreeOnDoubledList ==
    (/\ pc = "waypoints_out"
     /\ Get(inp[1].activitySegment, "waypoints", <<>>) =
            Get(Get(inp[1].activitySegment, "waypointPath", [waypoints |-> <<>>]),
                "waypoints", <<>>)) =>
        (out.real = out.og.waypoints /\ out.real = Decoded(RecordWaypoints))


(***************************************************************************)
(* core/map/main.py : the rows of the CSV files.  The transit part of one  *)
(* iteration of main() after separate_geometries: the truncation of each   *)
(* layer and the two CSV builders.  inp gives the endpoint, the number of  *)
(* point rows, the number of line rows and the dbg_lines cell that every   *)
(* line row carries; out gives, for each CSV, whether it was written and   *)
(* its number of data rows.                                                *)
(***************************************************************************)
max_features == 1500
my_maps_max_rows == 2000

\* gdf.head(n)
head(gdf, n) ==
    [columns |-> gdf.columns,
     rows |-> SubSeq(gdf.rows, 1, IF Len(gdf.rows) < n THEN Len(gdf.rows) ELSE n)]

rail_type(endpoint_name) ==
    IF endpoint_name = "SUBWAY_LIGHTRAIL" THEN "Subway"
    ELSE IF endpoint_name = "TRAM" THEN "Tram"
    ELSE IF endpoint_name = "COMMUTER_RAIL" THEN "Commuter Rail"
    ELSE endpoint_name

\* create_stations_csv: one row per point
create_stations_csv(points_gdf, endpoint_name) ==
    LET fallback_description == <<"Unknown " \o rail_type(endpoint_name) \o " Station">>
    IN  [k \in 1..Len(points_gdf.rows) |->
            LET row == points_gdf.rows[k]
            IN  [name |-> endpoint_name \o " Station",
                 latitude |-> row.geometry[2],
                 longitude |-> row.geometry[1],
                 Description |->
                     IF "station_label" \in points_gdf.columns
                        /\ notna(row.props["station_label"])
                        /\ strip(row.props["station_label"].v) # <<>>
                     THEN strip(row.props["station_label"].v)
                     ELSE fallback_description]]

\* "Process stations" and "Process lines" of main(): the CSV each writes
transit_csvs(points_gdf, lines_gdf, endpoint_name) ==
    [stations_written |-> Len(points_gdf.rows) > 0,
     stations_rows |->
         IF Len(points_gdf.rows) > 0
         THEN Len(create_stations_csv(
                      IF Len(points_gdf.rows) > max_features
                      THEN head(points_gdf, max_features) ELSE points_gdf,
                      endpoint_name))
         ELSE 0,
     lines_written |-> Len(lines_gdf.rows) > 0,
     lines_rows |->
         IF Len(lines_gdf.rows) > 0
         THEN Len(create_lines_csv(
                      IF Len(lines_gdf.rows) > max_features
                      THEN head(lines_gdf, max_features) ELSE lines_gdf))
         ELSE 0]

\* A layer of n stations
PointsLayer(n) ==
    [columns |-> {"station_label"},
     rows |-> [k \in 1..n |->
                  [geometry |-> <<k, 0>>, props |-> [station_label |-> Val(<<"Stop">>)]]]]

\* A layer of n lines that all carry the same dbg_lines cell
LinesLayer(n, cell) ==
    [columns |-> {"dbg_lines"},
     rows |-> [k \in 1..n |-> [geometry |-> LineGeometry(k), props |-> [dbg_lines |-> cell]]]]

TransitEndpoints == {"SUBWAY_LIGHTRAIL", "TRAM", "COMMUTER_RAIL"}
PointCounts == {0, 1, 1500, 1501}
LineCounts == {0, 1, 1000, 1001, 1501}
LineCells == {NaN, Val(<<"U1">>), Val(<<"U1", ",", "U2">>)}

RowsInit ==
    /\ pc = "rows_in"
    /\ \E endpoint \in TransitEndpoints, points \in PointCounts, lines \in LineCounts,
          cell \in LineCells :
           inp = [endpoint |-> endpoint, points |-> points, lines |-> lines, cell |-> cell]
    /\ out = <<>>
    /\ Idle

WriteCsvs ==
    /\ pc = "rows_in"
    /\ out' = transit_csvs(PointsLayer(inp.points), LinesLayer(inp.lines, inp.cell),
                           inp.endpoint)
    /\ pc' = "rows_out"
    /\ UNCHANGED <<inp, IdleVars>>

NextRows == WriteCsvs

SpecRows == RowsInit /\ [][NextRows]_vars

\* C28: every stations CSV and every lines CSV that main() writes has at
\* most 2000 data rows, whatever the number of features and of line names
\* per line feature.
C28_CsvsWithinRowLimit ==
    pc = "rows_out" =>
        /\ out.stations_rows <= my_maps_max_rows
        /\ out.lines_rows <= my_maps_max_rows

\* The stations CSV has one row per station kept: at most max_features
StationsCsvWithinLimit ==
    pc = "rows_out" =>
        out.stations_rows = (IF inp.points > max_features THEN max_features ELSE inp.points)

\* The lines CSV has one row per line name of every line kept: the
\* truncation counts features, not rows
LinesCsvHasRowPerName ==
    pc = "rows_out" =>
        out.lines_rows =
            (IF inp.lines > max_features THEN max_features ELSE inp.lines)
            * (IF inp.cell = Val(<<"U1", ",", "U2">>) THEN 2 ELSE 1)


(***************************************************************************)
(* core/map/main.py : main(), the temporary files and the confinement of   *)
(* failures                                                                *)
(***************************************************************************)
\* C29: when main() returns, no temporary file that it created remains in
\* the output directory, whatever the iterations met.
C29_NoTemporaryFileRemains == pc = "main_done" => out.temp = {}

\* What main() does: the temporary file of an endpoint is removed at the
\* end of its try block only, so it remains for exactly the endpoints whose
\* iteration failed after writing it
TemporaryFileRemainsIffProcessingFailed ==
    pc = "main_done" =>
        out.temp = {MunichGeoJson[k] : k \in {j \in 1..Len(MunichGeoJson) :
                                                  inp[j] \in {"ValueError", "OSError"}}}


\* The endpoints whose iteration has run
Processed == {k \in 1..Len(MunichGeoJson) : k < cursor}

\* C30: a failure while fetching or processing one endpoint is confined to
\* that endpoint: every endpoint up to the cursor has been fetched whatever
\* the earlier ones met, every endpoint that met no failure has all its
\* output files whatever the others met, a failed endpoint has left files of
\* its own name only, and main() returns only after the last endpoint.
C30_FailureIsConfined ==
    /\ out.fetched = SubSeq(MunichGeoJson, 1, cursor - 1)
    /\ \A k \in Processed :
           inp[k] = "ok" => outputs_of(MunichGeoJson[k]) \subseteq out.written
    /\ \A f \in out.written : \E k \in Processed :
           /\ f[1] = MunichGeoJson[k]
           /\ inp[k] \in {"ok", "OSError"}
    /\ out.failed = {MunichGeoJson[k] : k \in {j \in Processed : inp[j] # "ok"}}
    /\ pc = "main_done" => cursor = Len(MunichGeoJson) + 1 /\ out.fetched = MunichGeoJson

\* main() has returned from a run in which an endpoint failed and a later
\* one was processed to the end
C30_Witness ==
    /\ pc = "main_done"
    /\ \E k, j \in 1..Len(MunichGeoJson) :
           /\ k < j
           /\ inp[k] # "ok"
           /\ inp[j] = "ok"
           /\ outputs_of(MunichGeoJson[j]) \subseteq out.written
    /\ out.failed # {}

\* An iteration only adds files, and only files named by its own endpoint
IterationWritesOwnFiles ==
    [][/\ out.written \subseteq out'.written
       /\ \A f \in out'.written \ out.written :
              cursor <= Len(MunichGeoJson) /\ f[1] = MunichGeoJson[cursor]]_vars

\* The loop of main() is a for loop over a finite enumeration: once started
\* it runs to its end
SpecMainFair == SpecMain /\ WF_vars(NextMain)

\* main() terminates normally whatever the iterations meet
MainTerminates == <>(pc = "main_done")

=============================================================================
